---- MODULE Spec2Model ----
(***************************************************************************)
(* A model of mickamy/errx: the immutable error chain (errx), the code     *)
(* taxonomy tables of the HTTP, gRPC and Connect adapters (herr, gerr,     *)
(* cerr) and the forward / reverse conversions of each adapter.            *)
(*                                                                         *)
(* Pointers are indices into the sequence heap (0 is nil); Go slices are   *)
(* [arr, len] headers over the backing arrays kept in arrays.              *)
(***************************************************************************)
EXTENDS Integers, Sequences, FiniteSets, TLC

(***************************************************************************)
(* Bounds of the model.                                                    *)
(***************************************************************************)
MaxNodes == 4
MaxDepth == 2
MaxRegister == 2

(***************************************************************************)
(* errx.Code: the well-known codes, the empty code and custom codes.       *)
(***************************************************************************)
Canceled == "canceled"
Unknown == "unknown"
InvalidArgument == "invalid_argument"
DeadlineExceeded == "deadline_exceeded"
NotFound == "not_found"
AlreadyExists == "already_exists"
PermissionDenied == "permission_denied"
ResourceExhausted == "resource_exhausted"
FailedPrecondition == "failed_precondition"
Aborted == "aborted"
OutOfRange == "out_of_range"
Unimplemented == "unimplemented"
Internal == "internal"
Unavailable == "unavailable"
DataLoss == "data_loss"
Unauthenticated == "unauthenticated"

WellKnownCodes ==
  { Canceled, Unknown, InvalidArgument, DeadlineExceeded, NotFound,
    AlreadyExists, PermissionDenied, ResourceExhausted, FailedPrecondition,
    Aborted, OutOfRange, Unimplemented, Internal, Unavailable, DataLoss,
    Unauthenticated }

NoCode == ""
CustomCodes == { "payment_required", "custom" }
AllCodes == WellKnownCodes \cup CustomCodes \cup { NoCode }

(***************************************************************************)
(* herr: the HTTP tables as they are when the package is loaded.           *)
(***************************************************************************)
StatusBadRequest == 400
StatusUnauthorized == 401
StatusPaymentRequired == 402
StatusForbidden == 403
StatusNotFound == 404
StatusConflict == 409
StatusPreconditionFailed == 412
StatusTeapot == 418
StatusTooManyRequests == 429
StatusClientClosedRequest == 499
StatusInternalServerError == 500
StatusNotImplemented == 501
StatusServiceUnavailable == 503
StatusGatewayTimeout == 504

InitErrxToHTTP ==
  [ c \in WellKnownCodes |->
      CASE c = InvalidArgument    -> StatusBadRequest
        [] c = OutOfRange         -> StatusBadRequest
        [] c = Unauthenticated    -> StatusUnauthorized
        [] c = PermissionDenied   -> StatusForbidden
        [] c = NotFound           -> StatusNotFound
        [] c = AlreadyExists      -> StatusConflict
        [] c = Aborted            -> StatusConflict
        [] c = FailedPrecondition -> StatusPreconditionFailed
        [] c = ResourceExhausted  -> StatusTooManyRequests
        [] c = Canceled           -> StatusClientClosedRequest
        [] c = Internal           -> StatusInternalServerError
        [] c = Unknown            -> StatusInternalServerError
        [] c = DataLoss           -> StatusInternalServerError
        [] c = Unimplemented      -> StatusNotImplemented
        [] c = Unavailable        -> StatusServiceUnavailable
        [] c = DeadlineExceeded   -> StatusGatewayTimeout ]

ReverseStatuses ==
  { StatusBadRequest, StatusUnauthorized, StatusForbidden, StatusNotFound,
    StatusConflict, StatusPreconditionFailed, StatusTooManyRequests,
    StatusClientClosedRequest, StatusInternalServerError,
    StatusNotImplemented, StatusServiceUnavailable, StatusGatewayTimeout }

\* A plausible slip: the reverse table lists 409 under aborted and leaves
\* the non-standard 499 out.
HTTPToErrxSlip ==
  [ s \in ReverseStatuses \ { StatusClientClosedRequest } |->
      CASE s = StatusBadRequest          -> InvalidArgument
        [] s = StatusUnauthorized        -> Unauthenticated
        [] s = StatusForbidden           -> PermissionDenied
        [] s = StatusNotFound            -> NotFound
        [] s = StatusConflict            -> Aborted
        [] s = StatusPreconditionFailed  -> FailedPrecondition
        [] s = StatusTooManyRequests     -> ResourceExhausted
        [] s = StatusInternalServerError -> Internal
        [] s = StatusNotImplemented      -> Unimplemented
        [] s = StatusServiceUnavailable  -> Unavailable
        [] s = StatusGatewayTimeout      -> DeadlineExceeded ]

InitHTTPToErrx ==
  [ s \in ReverseStatuses |->
      CASE s = StatusBadRequest          -> InvalidArgument
        [] s = StatusUnauthorized        -> Unauthenticated
        [] s = StatusForbidden           -> PermissionDenied
        [] s = StatusNotFound            -> NotFound
        [] s = StatusConflict            -> AlreadyExists
        [] s = StatusPreconditionFailed  -> FailedPrecondition
        [] s = StatusTooManyRequests     -> ResourceExhausted
        [] s = StatusClientClosedRequest -> Canceled
        [] s = StatusInternalServerError -> Internal
        [] s = StatusNotImplemented      -> Unimplemented
        [] s = StatusServiceUnavailable  -> Unavailable
        [] s = StatusGatewayTimeout      -> DeadlineExceeded ]

\* Statuses a caller may look up or register: every table status, two
\* statuses outside the table and the OK status.
StatusOK == 200
AllStatuses == ReverseStatuses \cup { StatusPaymentRequired, StatusTeapot, StatusOK }

VARIABLES
  errxToHTTP,   \* herr.errxToHTTP: map[errx.Code]int
  httpToErrx,   \* herr.httpToErrx: map[int]errx.Code
  regCalls,     \* number of herr.RegisterCode calls made so far
  lastFwd,      \* the last herr.ToHTTPStatus call: [code, status]
  lastRev,      \* the last herr.ToErrxCode call: [status, code]
  codeFwd,      \* the last gerr.ToGRPCCode / cerr.ToConnectCode call
  codeRev,      \* the last gerr.ToErrxCode / cerr.ToErrxCode call
  heap,         \* the error values allocated so far (index = pointer)
  arrays,       \* backing arrays of the fields / details slices
  stacks,       \* the *Stack objects captured so far
  origin,       \* per node: the call that returned it
  published,    \* per node: what its observers returned when it was returned
  wire,         \* the last forward conversion result (status / error / problem)
  recovered,    \* the last reverse conversion: [from, node]
  resent,       \* the forward conversion of the recovered error
  lastParse,    \* the last ParseAcceptLanguage call: [s, called, got]
  recorder,     \* the http.ResponseWriter of the request being served
  trace         \* the calls an adapter has made while serving the request

tableVars == << errxToHTTP, httpToErrx, regCalls, lastFwd, lastRev,
                codeFwd, codeRev >>
chainVars == << heap, arrays, stacks, origin, published >>
sideVars == << lastParse, recorder, trace >>
wireVars == << wire, recovered, resent, lastParse, recorder, trace >>
vars == << errxToHTTP, httpToErrx, regCalls, lastFwd, lastRev, codeFwd, codeRev,
           heap, arrays, stacks, origin, published, wire, recovered, resent,
           lastParse, recorder, trace >>

(***************************************************************************)
(* herr: table lookups and registration.                                   *)
(***************************************************************************)
\* A plausible slip: indexing the map without the ok check yields the zero
\* value for a missing key.
ToHTTPStatusNoOk(c) ==
  IF c \in DOMAIN errxToHTTP THEN errxToHTTP[c] ELSE 0

ToHTTPStatus(c) ==
  IF c \in DOMAIN errxToHTTP THEN errxToHTTP[c] ELSE StatusInternalServerError

\* A plausible slip: a reverse entry that names a custom code is not
\* answered.
ToErrxCodeKnownOnly(status) ==
  IF status \in DOMAIN httpToErrx /\ httpToErrx[status] \in WellKnownCodes
  THEN httpToErrx[status] ELSE Unknown

ToErrxCode(status) ==
  IF status \in DOMAIN httpToErrx THEN httpToErrx[status] ELSE Unknown

MapSet(m, k, v) == [ x \in (DOMAIN m) \cup {k} |-> IF x = k THEN v ELSE m[x] ]

(***************************************************************************)
(* gerr and cerr: protocol codes and the two fixed tables of each adapter.  *)
(***************************************************************************)
codesOK == 0
codesCanceled == 1
codesUnknown == 2
codesInvalidArgument == 3
codesDeadlineExceeded == 4
codesNotFound == 5
codesAlreadyExists == 6
codesPermissionDenied == 7
codesResourceExhausted == 8
codesFailedPrecondition == 9
codesAborted == 10
codesOutOfRange == 11
codesUnimplemented == 12
codesInternal == 13
codesUnavailable == 14
codesDataLoss == 15
codesUnauthenticated == 16

GRPCCodes == codesOK..codesUnauthenticated

errxToGRPC ==
  [ c \in WellKnownCodes |->
      CASE c = Canceled           -> codesCanceled
        [] c = Unknown            -> codesUnknown
        [] c = InvalidArgument    -> codesInvalidArgument
        [] c = DeadlineExceeded   -> codesDeadlineExceeded
        [] c = NotFound           -> codesNotFound
        [] c = AlreadyExists      -> codesAlreadyExists
        [] c = PermissionDenied   -> codesPermissionDenied
        [] c = ResourceExhausted  -> codesResourceExhausted
        [] c = FailedPrecondition -> codesFailedPrecondition
        [] c = Aborted            -> codesAborted
        [] c = OutOfRange         -> codesOutOfRange
        [] c = Unimplemented      -> codesUnimplemented
        [] c = Internal           -> codesInternal
        [] c = Unavailable        -> codesUnavailable
        [] c = DataLoss           -> codesDataLoss
        [] c = Unauthenticated    -> codesUnauthenticated ]

grpcToErrx ==
  [ g \in GRPCCodes |->
      CASE g = codesOK                 -> NoCode
        [] g = codesCanceled           -> Canceled
        [] g = codesUnknown            -> Unknown
        [] g = codesInvalidArgument    -> InvalidArgument
        [] g = codesDeadlineExceeded   -> DeadlineExceeded
        [] g = codesNotFound           -> NotFound
        [] g = codesAlreadyExists      -> AlreadyExists
        [] g = codesPermissionDenied   -> PermissionDenied
        [] g = codesResourceExhausted  -> ResourceExhausted
        [] g = codesFailedPrecondition -> FailedPrecondition
        [] g = codesAborted            -> Aborted
        [] g = codesOutOfRange         -> OutOfRange
        [] g = codesUnimplemented      -> Unimplemented
        [] g = codesInternal           -> Internal
        [] g = codesUnavailable        -> Unavailable
        [] g = codesDataLoss           -> DataLoss
        [] g = codesUnauthenticated    -> Unauthenticated ]

\* A plausible slip: indexing the map without the ok check yields the zero
\* value, codes.OK, for a code the table does not name.
ToGRPCCodeNoOk(c) ==
  IF c \in DOMAIN errxToGRPC THEN errxToGRPC[c] ELSE codesOK

\* gerr.ToGRPCCode
ToGRPCCode(c) ==
  IF c \in DOMAIN errxToGRPC THEN errxToGRPC[c] ELSE codesUnknown

\* gerr.ToErrxCode
gerrToErrxCode(g) ==
  IF g \in DOMAIN grpcToErrx THEN grpcToErrx[g] ELSE Unknown

CodeCanceled == 1
CodeUnknown == 2
CodeInvalidArgument == 3
CodeDeadlineExceeded == 4
CodeNotFound == 5
CodeAlreadyExists == 6
CodePermissionDenied == 7
CodeResourceExhausted == 8
CodeFailedPrecondition == 9
CodeAborted == 10
CodeOutOfRange == 11
CodeUnimplemented == 12
CodeInternal == 13
CodeUnavailable == 14
CodeDataLoss == 15
CodeUnauthenticated == 16

\* connectToErrx keys: the literal 0 and the sixteen connect codes.
ConnectCodes == 0..CodeUnauthenticated

errxToConnect ==
  [ c \in WellKnownCodes |->
      CASE c = Canceled           -> CodeCanceled
        [] c = Unknown            -> CodeUnknown
        [] c = InvalidArgument    -> CodeInvalidArgument
        [] c = DeadlineExceeded   -> CodeDeadlineExceeded
        [] c = NotFound           -> CodeNotFound
        [] c = AlreadyExists      -> CodeAlreadyExists
        [] c = PermissionDenied   -> CodePermissionDenied
        [] c = ResourceExhausted  -> CodeResourceExhausted
        [] c = FailedPrecondition -> CodeFailedPrecondition
        [] c = Aborted            -> CodeAborted
        [] c = OutOfRange         -> CodeOutOfRange
        [] c = Unimplemented      -> CodeUnimplemented
        [] c = Internal           -> CodeInternal
        [] c = Unavailable        -> CodeUnavailable
        [] c = DataLoss           -> CodeDataLoss
        [] c = Unauthenticated    -> CodeUnauthenticated ]

connectToErrx ==
  [ cc \in ConnectCodes |->
      CASE cc = 0                      -> NoCode
        [] cc = CodeCanceled           -> Canceled
        [] cc = CodeUnknown            -> Unknown
        [] cc = CodeInvalidArgument    -> InvalidArgument
        [] cc = CodeDeadlineExceeded   -> DeadlineExceeded
        [] cc = CodeNotFound           -> NotFound
        [] cc = CodeAlreadyExists      -> AlreadyExists
        [] cc = CodePermissionDenied   -> PermissionDenied
        [] cc = CodeResourceExhausted  -> ResourceExhausted
        [] cc = CodeFailedPrecondition -> FailedPrecondition
        [] cc = CodeAborted            -> Aborted
        [] cc = CodeOutOfRange         -> OutOfRange
        [] cc = CodeUnimplemented      -> Unimplemented
        [] cc = CodeInternal           -> Internal
        [] cc = CodeUnavailable        -> Unavailable
        [] cc = CodeDataLoss           -> DataLoss
        [] cc = CodeUnauthenticated    -> Unauthenticated ]

\* cerr.ToConnectCode
ToConnectCode(c) ==
  IF c \in DOMAIN errxToConnect THEN errxToConnect[c] ELSE CodeUnknown

\* cerr.ToErrxCode
cerrToErrxCode(cc) ==
  IF cc \in DOMAIN connectToErrx THEN connectToErrx[cc] ELSE Unknown

(***************************************************************************)
(* Go slices: a header [arr, len] over a backing array; cap is the length  *)
(* of the backing array.  The zero slice is nil.                           *)
(***************************************************************************)
NilSlice == [arr |-> 0, len |-> 0]
ZeroSlot == [type |-> "zero"]

Elems(arrs, s) == IF s.len = 0 THEN << >> ELSE SubSeq(arrs[s.arr], 1, s.len)

Pad(xs, spare) == IF spare THEN Append(xs, ZeroSlot) ELSE xs

\* append(s, xs...) as the runtime does it: in place when the backing array
\* has room, into a newly allocated array otherwise.  spare tells whether the
\* runtime rounds the new capacity up by one slot.
GoAppend(arrs, s, xs, spare) ==
  IF Len(xs) = 0 THEN [arrays |-> arrs, slice |-> s]
  ELSE IF s.arr # 0 /\ s.len + Len(xs) <= Len(arrs[s.arr])
  THEN [arrays |-> [arrs EXCEPT ![s.arr] =
                      [i \in 1..Len(@) |->
                         IF i > s.len /\ i <= s.len + Len(xs)
                         THEN xs[i - s.len] ELSE @[i]]],
        slice  |-> [arr |-> s.arr, len |-> s.len + Len(xs)]]
  ELSE [arrays |-> Append(arrs, Pad(Elems(arrs, s) \o xs, spare)),
        slice  |-> [arr |-> Len(arrs) + 1, len |-> s.len + Len(xs)]]

\* A plausible slip: append(e.details, details...) without the copy.
AppendAliased(arrs, s, xs, spare) == GoAppend(arrs, s, xs, spare)

\* append(append([]T(nil), s...), xs...): the receiver's elements are copied
\* into a new array before anything is appended.
AppendCopy(arrs, s, xs, spare) ==
  IF s.len + Len(xs) = 0 THEN [arrays |-> arrs, slice |-> NilSlice]
  ELSE [arrays |-> Append(arrs, Pad(Elems(arrs, s) \o xs, spare)),
        slice  |-> [arr |-> Len(arrs) + 1, len |-> s.len + Len(xs)]]

(***************************************************************************)
(* slog-style arguments and errx.argsToAttrs.                              *)
(***************************************************************************)
StrArg(v) == [t |-> "string", k |-> "", v |-> v]
AttrArg(k, v) == [t |-> "attr", k |-> k, v |-> v]
OtherArg(v) == [t |-> "other", k |-> "", v |-> v]
Attr(k, v) == [Key |-> k, Value |-> v]

RECURSIVE argsFrom(_, _)
argsFrom(args, i) ==
  IF i > Len(args) THEN << >>
  ELSE IF args[i].t = "attr"
       THEN << Attr(args[i].k, args[i].v) >> \o argsFrom(args, i + 1)
  ELSE IF args[i].t = "string"
       THEN IF i + 1 <= Len(args)
            THEN << Attr(args[i].v, args[i + 1].v) >> \o argsFrom(args, i + 2)
            ELSE << Attr("!BADKEY", args[i].v) >> \o argsFrom(args, i + 1)
  ELSE << Attr("!BADKEY", args[i].v) >> \o argsFrom(args, i + 1)

argsToAttrs(args) == argsFrom(args, 1)

(***************************************************************************)
(* Error values.  kind is the dynamic type:                                *)
(*   "Error"          *errx.Error                                          *)
(*   "SentinelError"  *errx.SentinelError                                  *)
(*   "errorString"    errors.New(msg)                                      *)
(*   "wrapError"      fmt.Errorf(msg + ": %w", cause)                      *)
(*   "coderError"     a foreign type with Code(), and Unwrap() when it has *)
(*                    a cause                                              *)
(***************************************************************************)
Node(kind, msg, cause, code, fields, details, stack) ==
  [kind |-> kind, msg |-> msg, cause |-> cause, code |-> code,
   fields |-> fields, details |-> details, stack |-> stack]

IsCoder(n) == n.kind \in {"Error", "SentinelError", "coderError"}

\* A plausible slip: a type assertion on err itself in place of errors.As.
AsErrorAssert(h, err) ==
  IF err # 0 /\ h[err].kind = "Error" THEN err ELSE 0

\* errors.As(err, &ex) with ex *errx.Error: the first *Error met while
\* unwrapping from err, or nil.
RECURSIVE AsError(_, _)
AsError(h, err) ==
  IF err = 0 THEN 0
  ELSE IF h[err].kind = "Error" THEN err
  ELSE AsError(h, h[err].cause)

\* errors.As(err, &c) with c Coder.
RECURSIVE AsCoder(_, _)
AsCoder(h, err) ==
  IF err = 0 THEN 0
  ELSE IF IsCoder(h[err]) THEN err
  ELSE AsCoder(h, h[err].cause)

\* errors.Is(err, target) for pointer-identity targets.
RECURSIVE ErrorsIs(_, _, _)
ErrorsIs(h, err, target) ==
  IF err = 0 THEN FALSE
  ELSE IF err = target THEN TRUE
  ELSE ErrorsIs(h, h[err].cause, target)

\* Error.Unwrap: the cause.
Unwrap(h, e) == h[e].cause

RECURSIVE ErrorString(_, _)

\* A plausible slip in Error.Error: the empty-message case is missing, so a
\* message-less wrapper renders as ": " and the cause.
ErrorStringJoin(h, err) ==
  LET n == h[err] IN
  IF n.cause = 0 THEN n.msg
  ELSE n.msg \o ": " \o ErrorString(h, n.cause)

\* err.Error(): Error.Error for an *errx.Error, the message for a sentinel
\* or an errors.New value, "msg: cause" for a foreign wrapper.
ErrorString(h, err) ==
  LET n == h[err] IN
  IF n.kind = "Error"
  THEN IF n.msg = "" /\ n.cause # 0 THEN ErrorString(h, n.cause)
       ELSE IF n.cause = 0 THEN n.msg
       ELSE n.msg \o ": " \o ErrorString(h, n.cause)
  ELSE IF n.cause = 0 THEN n.msg
  ELSE n.msg \o ": " \o ErrorString(h, n.cause)

RECURSIVE CodeOf(_, _)
RECURSIVE Code(_, _)

\* A plausible slip in Error.Code: the cause's code is consulted first.
CodeCauseFirst(h, e) ==
  IF CodeOf(h, h[e].cause) # NoCode THEN CodeOf(h, h[e].cause) ELSE h[e].code

\* (*Error).Code()
Code(h, e) ==
  IF h[e].code # NoCode THEN h[e].code ELSE CodeOf(h, h[e].cause)

\* A plausible slip in CodeOf: reading the carrier's code field in place of
\* calling its Code method.
CodeOfField(h, err) ==
  LET c == AsCoder(h, err) IN IF c = 0 THEN NoCode ELSE h[c].code

\* errx.CodeOf(err); c.Code() dispatches on the carrier's type
\* (SentinelError.Code and the foreign carrier's Code return the field).
CodeOf(h, err) ==
  LET c == AsCoder(h, err) IN
  IF c = 0 THEN NoCode
  ELSE IF h[c].kind = "Error" THEN Code(h, c)
  ELSE h[c].code

RECURSIVE Fields(_, _, _)
Fields(h, arrs, err) ==
  LET ex == AsError(h, err) IN
  IF ex = 0 THEN << >>
  ELSE Elems(arrs, h[ex].fields) \o Fields(h, arrs, h[ex].cause)

RECURSIVE DetailsOf(_, _, _)
DetailsOf(h, arrs, err) ==
  LET ex == AsError(h, err) IN
  IF ex = 0 THEN << >>
  ELSE Elems(arrs, h[ex].details) \o DetailsOf(h, arrs, h[ex].cause)

RECURSIVE StackOf(_, _)
StackOf(h, err) ==
  LET ex == AsError(h, err) IN
  IF ex = 0 THEN 0
  ELSE IF h[ex].stack # 0 THEN h[ex].stack
  ELSE StackOf(h, h[ex].cause)

\* What a caller can observe of an error through the package's accessors.
Observe(h, arrs, stks, err) ==
  [error   |-> ErrorString(h, err),
   code    |-> CodeOf(h, err),
   fields  |-> Fields(h, arrs, err),
   details |-> DetailsOf(h, arrs, err),
   stack   |-> IF StackOf(h, err) = 0 THEN << >> ELSE stks[StackOf(h, err)]]

(***************************************************************************)
(* Inputs of the error-chain operations.                                   *)
(***************************************************************************)
CodeInputs == { NoCode, NotFound, "payment_required" }
NewArgs == { << >>, << StrArg("key1"), StrArg("val1") >> }
WithArgs == { << AttrArg("key2", "val2"), StrArg("orphan") >> }
StringDetail(v) == [type |-> "string", value |-> v]
DetailInputs == { << StringDetail("b") >> }
FrameInputs == { << "main.handler" >> }

\* errx.FieldViolation(field, description)
FieldViolation(field, description) ==
  [type |-> "errx.BadRequestDetail",
   Violations |-> << [Field |-> field, Description |-> description] >>]

Call(op, recv, code, added) ==
  [op |-> op, recv |-> recv, code |-> code, added |-> added]

\* The caller receives a pointer to a newly allocated value.
Publish(node, arrs, stks, call) ==
  /\ heap' = Append(heap, node)
  /\ arrays' = arrs
  /\ stacks' = stks
  /\ origin' = Append(origin, call)
  /\ published' = Append(published,
                         Observe(Append(heap, node), arrs, stks, Len(heap) + 1))
  /\ UNCHANGED << tableVars, wireVars >>

Ptrs == 1..Len(heap)
ErrorPtrs == { e \in Ptrs : heap[e].kind = "Error" }

New(msg, args, spare) ==
  /\ Len(heap) < MaxNodes
  /\ LET r == AppendCopy(arrays, NilSlice, argsToAttrs(args), spare) IN
     Publish(Node("Error", msg, 0, NoCode, r.slice, NilSlice, 0),
             r.arrays, stacks, Call("New", 0, NoCode, argsToAttrs(args)))

NewSentinel(msg, code) ==
  /\ Len(heap) < MaxNodes
  /\ Publish(Node("SentinelError", msg, 0, code, NilSlice, NilSlice, 0),
             arrays, stacks, Call("NewSentinel", 0, code, << >>))

Wrap(err, args, spare) ==
  /\ Len(heap) < MaxNodes
  /\ err # 0
  /\ LET r == AppendCopy(arrays, NilSlice, argsToAttrs(args), spare) IN
     Publish(Node("Error", "", err, NoCode, r.slice, NilSlice, 0),
             r.arrays, stacks, Call("Wrap", err, NoCode, argsToAttrs(args)))

\* A plausible slip: the cause is formatted into nothing and not kept.
WrapfFlat(err, msg) ==
  /\ Len(heap) < MaxNodes
  /\ err # 0
  /\ Publish(Node("Error", msg, 0, NoCode, NilSlice, NilSlice, 0),
             arrays, stacks, Call("Wrapf", err, NoCode, << >>))

Wrapf(err, msg) ==
  /\ Len(heap) < MaxNodes
  /\ err # 0
  /\ Publish(Node("Error", msg, err, NoCode, NilSlice, NilSlice, 0),
             arrays, stacks, Call("Wrapf", err, NoCode, << >>))

With(e, args, spare) ==
  /\ Len(heap) < MaxNodes
  /\ LET r == AppendCopy(arrays, heap[e].fields, argsToAttrs(args), spare) IN
     Publish([heap[e] EXCEPT !.fields = r.slice],
             r.arrays, stacks, Call("With", e, NoCode, argsToAttrs(args)))

WithCode(e, c) ==
  /\ Len(heap) < MaxNodes
  /\ Publish([heap[e] EXCEPT !.code = c],
             arrays, stacks, Call("WithCode", e, c, << >>))

WithDetails(e, details, spare) ==
  /\ Len(heap) < MaxNodes
  /\ LET r == AppendCopy(arrays, heap[e].details, details, spare) IN
     Publish([heap[e] EXCEPT !.details = r.slice],
             r.arrays, stacks, Call("WithDetails", e, NoCode, details))

WithFieldViolation(e, field, description, spare) ==
  /\ Len(heap) < MaxNodes
  /\ LET d == << FieldViolation(field, description) >>
         r == AppendCopy(arrays, heap[e].details, d, spare) IN
     Publish([heap[e] EXCEPT !.details = r.slice],
             r.arrays, stacks, Call("WithFieldViolation", e, NoCode, d))

\* captureStack is a black box that returns the caller's frames.
WithStack(e, frames) ==
  /\ Len(heap) < MaxNodes
  /\ Publish([heap[e] EXCEPT !.stack = Len(stacks) + 1],
             arrays, Append(stacks, frames), Call("WithStack", e, NoCode, << >>))

\* errors.New(msg)
ErrorsNew(msg) ==
  /\ Len(heap) < MaxNodes
  /\ Publish(Node("errorString", msg, 0, NoCode, NilSlice, NilSlice, 0),
             arrays, stacks, Call("errors.New", 0, NoCode, << >>))

\* fmt.Errorf(msg + ": %w", err)
FmtErrorf(msg, err) ==
  /\ Len(heap) < MaxNodes
  /\ err # 0
  /\ Publish(Node("wrapError", msg, err, NoCode, NilSlice, NilSlice, 0),
             arrays, stacks, Call("fmt.Errorf", err, NoCode, << >>))

\* A value of a foreign type that implements errx.Coder; cause = 0 is the
\* test suite's coderError, a non-nil cause adds Unwrap.
NewCoder(msg, code, cause) ==
  /\ Len(heap) < MaxNodes
  /\ Publish(Node("coderError", msg, cause, code, NilSlice, NilSlice, 0),
             arrays, stacks, Call("coderError", cause, code, << >>))

\* A plausible slip: the reverse table is rebuilt from the new entry alone.
RegisterCodeSlip(c, status) ==
  /\ regCalls < MaxRegister
  /\ errxToHTTP' = MapSet(errxToHTTP, c, status)
  /\ httpToErrx' = [ s \in { status } |-> c ]
  /\ regCalls' = regCalls + 1
  /\ UNCHANGED << lastFwd, lastRev, codeFwd, codeRev, chainVars, wireVars >>

\* herr.RegisterCode(c, status)
RegisterCode(c, status) ==
  /\ regCalls < MaxRegister
  /\ errxToHTTP' = MapSet(errxToHTTP, c, status)
  /\ httpToErrx' = MapSet(httpToErrx, status, c)
  /\ regCalls' = regCalls + 1
  /\ UNCHANGED << lastFwd, lastRev, codeFwd, codeRev, chainVars, wireVars >>

\* A caller looks a code up.
CallToHTTPStatus(c) ==
  /\ lastFwd' = [code |-> c, status |-> ToHTTPStatus(c)]
  /\ UNCHANGED << errxToHTTP, httpToErrx, regCalls, lastRev, codeFwd, codeRev,
                  chainVars, wireVars >>

\* A caller looks a status up.
CallToErrxCode(status) ==
  /\ lastRev' = [status |-> status, code |-> ToErrxCode(status)]
  /\ UNCHANGED << errxToHTTP, httpToErrx, regCalls, lastFwd, codeFwd, codeRev,
                  chainVars, wireVars >>

\* A caller maps a code with gerr.ToGRPCCode.
CallToGRPCCode(c) ==
  /\ codeFwd' = [pkg |-> "gerr", code |-> c, proto |-> ToGRPCCode(c)]
  /\ UNCHANGED << errxToHTTP, httpToErrx, regCalls, lastFwd, lastRev, codeRev,
                  chainVars, wireVars >>

\* A caller maps a gRPC code with gerr.ToErrxCode.
CallGerrToErrxCode(g) ==
  /\ codeRev' = [pkg |-> "gerr", proto |-> g, code |-> gerrToErrxCode(g)]
  /\ UNCHANGED << errxToHTTP, httpToErrx, regCalls, lastFwd, lastRev, codeFwd,
                  chainVars, wireVars >>

\* A caller maps a code with cerr.ToConnectCode.
CallToConnectCode(c) ==
  /\ codeFwd' = [pkg |-> "cerr", code |-> c, proto |-> ToConnectCode(c)]
  /\ UNCHANGED << errxToHTTP, httpToErrx, regCalls, lastFwd, lastRev, codeRev,
                  chainVars, wireVars >>

\* A caller maps a Connect code with cerr.ToErrxCode.
CallCerrToErrxCode(cc) ==
  /\ codeRev' = [pkg |-> "cerr", proto |-> cc, code |-> cerrToErrxCode(cc)]
  /\ UNCHANGED << errxToHTTP, httpToErrx, regCalls, lastFwd, lastRev, codeFwd,
                  chainVars, wireVars >>

(***************************************************************************)
(* Detail objects.  type is the dynamic Go type; the errx canonical kinds   *)
(* are the four structs of package errx, the protocol-native messages are  *)
(* the google.rpc messages of package errdetails.                          *)
(***************************************************************************)
\* errx.PreconditionViolation{Type, Subject, Description}
PreconditionViolation(typ, subject, description) ==
  [Type |-> typ, Subject |-> subject, Description |-> description]

\* errx.PreconditionFailure(violations...)
PreconditionFailure(violations) ==
  [type |-> "errx.PreconditionFailureDetail", Violations |-> violations]

\* errx.ResourceInfo(resourceType, resourceName, owner, description)
ResourceInfo(resourceType, resourceName, owner, description) ==
  [type |-> "errx.ResourceInfoDetail", ResourceType |-> resourceType,
   ResourceName |-> resourceName, Owner |-> owner, Description |-> description]

\* errx.ErrorInfo(reason, domain, metadata); a map is its set of entries.
ErrorInfo(reason, domain, metadata) ==
  [type |-> "errx.ErrorInfoDetail", Reason |-> reason, Domain |-> domain,
   Metadata |-> metadata]

\* gerr.FieldViolation(field, description): the google.rpc message itself.
gerrFieldViolation(field, description) ==
  [type |-> "errdetails.BadRequest",
   FieldViolations |-> << [Field |-> field, Description |-> description] >>]

\* gerr.LocalizedMessage(locale, message)
LocalizedMessage(locale, message) ==
  [type |-> "errdetails.LocalizedMessage", Locale |-> locale, Message |-> message]

CanonicalTypes ==
  { "errx.BadRequestDetail", "errx.PreconditionFailureDetail",
    "errx.ResourceInfoDetail", "errx.ErrorInfoDetail" }

ProtoTypes ==
  { "errdetails.BadRequest", "errdetails.PreconditionFailure",
    "errdetails.ResourceInfo", "errdetails.ErrorInfo",
    "errdetails.LocalizedMessage" }

\* d.(proto.Message) / d.(protoadapt.MessageV1)
IsProtoMessage(d) == d.type \in ProtoTypes

\* The nil interface value a conversion returns for "no result".
NilMessage == [type |-> "nil"]

\* A nil pointer of the canonical type t stored as a detail, e.g.
\* (*errx.ResourceInfoDetail)(nil).
NilPtr(t) == [type |-> t, nilptr |-> TRUE]
IsNilPtr(d) == "nilptr" \in DOMAIN d

\* The outcome of a call that panics (a nil pointer dereference).
Panic == [type |-> "panic"]

\* A plausible slip in the type switch: the BadRequest case copies the
\* description into both members of each violation.
ToProtoDetailSlip(d) ==
  IF d.type = "errx.BadRequestDetail"
  THEN [type |-> "errdetails.BadRequest",
        FieldViolations |->
          [i \in 1..Len(d.Violations) |->
             [Field |-> d.Violations[i].Description,
              Description |-> d.Violations[i].Description]]]
  ELSE IF IsProtoMessage(d) THEN d ELSE NilMessage

\* gerr.toProtoDetail; every canonical case reads a member of v, which panics
\* when v is a nil pointer.
gerrToProtoDetail(d) ==
  IF d.type \in CanonicalTypes /\ IsNilPtr(d) THEN Panic ELSE
  CASE d.type = "errx.BadRequestDetail" ->
         [type |-> "errdetails.BadRequest",
          FieldViolations |->
            [i \in 1..Len(d.Violations) |->
               [Field |-> d.Violations[i].Field,
                Description |-> d.Violations[i].Description]]]
    [] d.type = "errx.PreconditionFailureDetail" ->
         [type |-> "errdetails.PreconditionFailure",
          Violations |->
            [i \in 1..Len(d.Violations) |->
               [Type |-> d.Violations[i].Type,
                Subject |-> d.Violations[i].Subject,
                Description |-> d.Violations[i].Description]]]
    [] d.type = "errx.ResourceInfoDetail" ->
         [type |-> "errdetails.ResourceInfo", ResourceType |-> d.ResourceType,
          ResourceName |-> d.ResourceName, Owner |-> d.Owner,
          Description |-> d.Description]
    [] d.type = "errx.ErrorInfoDetail" ->
         [type |-> "errdetails.ErrorInfo", Reason |-> d.Reason,
          Domain |-> d.Domain, Metadata |-> d.Metadata]
    [] OTHER -> IF IsProtoMessage(d) THEN d ELSE NilMessage

\* cerr.toProtoDetail; every canonical case reads a member of v, which panics
\* when v is a nil pointer.
cerrToProtoDetail(d) ==
  IF d.type \in CanonicalTypes /\ IsNilPtr(d) THEN Panic ELSE
  CASE d.type = "errx.BadRequestDetail" ->
         [type |-> "errdetails.BadRequest",
          FieldViolations |->
            [i \in 1..Len(d.Violations) |->
               [Field |-> d.Violations[i].Field,
                Description |-> d.Violations[i].Description]]]
    [] d.type = "errx.PreconditionFailureDetail" ->
         [type |-> "errdetails.PreconditionFailure",
          Violations |->
            [i \in 1..Len(d.Violations) |->
               [Type |-> d.Violations[i].Type,
                Subject |-> d.Violations[i].Subject,
                Description |-> d.Violations[i].Description]]]
    [] d.type = "errx.ResourceInfoDetail" ->
         [type |-> "errdetails.ResourceInfo", ResourceType |-> d.ResourceType,
          ResourceName |-> d.ResourceName, Owner |-> d.Owner,
          Description |-> d.Description]
    [] d.type = "errx.ErrorInfoDetail" ->
         [type |-> "errdetails.ErrorInfo", Reason |-> d.Reason,
          Domain |-> d.Domain, Metadata |-> d.Metadata]
    [] OTHER -> IF IsProtoMessage(d) THEN d ELSE NilMessage

\* A plausible slip: every canonical kind is written with the tag of the
\* first case.
toDetailJSONSlip(d) ==
  IF d.type \in CanonicalTypes THEN [type |-> "BadRequest"] ELSE NilMessage

\* herr.toDetailJSON: the JSON object of a canonical kind, nil otherwise;
\* every canonical case reads a member of v, which panics when v is a nil
\* pointer.
toDetailJSON(d) ==
  IF d.type \in CanonicalTypes /\ IsNilPtr(d) THEN Panic ELSE
  CASE d.type = "errx.BadRequestDetail" ->
         [type |-> "BadRequest",
          violations |->
            [i \in 1..Len(d.Violations) |->
               [field |-> d.Violations[i].Field,
                description |-> d.Violations[i].Description]]]
    [] d.type = "errx.PreconditionFailureDetail" ->
         [type |-> "PreconditionFailure",
          violations |->
            [i \in 1..Len(d.Violations) |->
               [type |-> d.Violations[i].Type,
                subject |-> d.Violations[i].Subject,
                description |-> d.Violations[i].Description]]]
    [] d.type = "errx.ResourceInfoDetail" ->
         [type |-> "ResourceInfo", resource_type |-> d.ResourceType,
          resource_name |-> d.ResourceName, owner |-> d.Owner,
          description |-> d.Description]
    [] d.type = "errx.ErrorInfoDetail" ->
         [type |-> "ErrorInfo", reason |-> d.Reason, domain |-> d.Domain,
          metadata |-> d.Metadata]
    [] OTHER -> NilMessage

(***************************************************************************)
(* protobuf: a message is packed into an Any (type URL + encoded bytes)    *)
(* and unpacked by its type URL.  The encoding lists a message's members   *)
(* in field-number order; proto3 refuses a string that is not valid UTF-8. *)
(***************************************************************************)
BadUTF8 == "\\xff"

ValidUTF8(s) == s # BadUTF8

StringsOf(m) ==
  CASE m.type = "errdetails.BadRequest" ->
         UNION { { m.FieldViolations[i].Field, m.FieldViolations[i].Description } :
                 i \in 1..Len(m.FieldViolations) }
    [] m.type = "errdetails.PreconditionFailure" ->
         UNION { { m.Violations[i].Type, m.Violations[i].Subject,
                   m.Violations[i].Description } : i \in 1..Len(m.Violations) }
    [] m.type = "errdetails.ResourceInfo" ->
         { m.ResourceType, m.ResourceName, m.Owner, m.Description }
    [] m.type = "errdetails.ErrorInfo" ->
         { m.Reason, m.Domain } \cup UNION { { kv[1], kv[2] } : kv \in m.Metadata }
    [] m.type = "errdetails.LocalizedMessage" -> { m.Locale, m.Message }

TypeURL(m) ==
  CASE m.type = "errdetails.BadRequest" -> "type.googleapis.com/google.rpc.BadRequest"
    [] m.type = "errdetails.PreconditionFailure" ->
         "type.googleapis.com/google.rpc.PreconditionFailure"
    [] m.type = "errdetails.ResourceInfo" -> "type.googleapis.com/google.rpc.ResourceInfo"
    [] m.type = "errdetails.ErrorInfo" -> "type.googleapis.com/google.rpc.ErrorInfo"
    [] m.type = "errdetails.LocalizedMessage" ->
         "type.googleapis.com/google.rpc.LocalizedMessage"

Marshal(m) ==
  CASE m.type = "errdetails.BadRequest" ->
         [i \in 1..Len(m.FieldViolations) |->
            << m.FieldViolations[i].Field, m.FieldViolations[i].Description >>]
    [] m.type = "errdetails.PreconditionFailure" ->
         [i \in 1..Len(m.Violations) |->
            << m.Violations[i].Type, m.Violations[i].Subject,
               m.Violations[i].Description >>]
    [] m.type = "errdetails.ResourceInfo" ->
         << m.ResourceType, m.ResourceName, m.Owner, m.Description >>
    [] m.type = "errdetails.ErrorInfo" -> << m.Reason, m.Domain, m.Metadata >>
    [] m.type = "errdetails.LocalizedMessage" -> << m.Locale, m.Message >>

\* anypb.New(m): fails when the message does not marshal.
AnyNew(m) ==
  IF \E s \in StringsOf(m) : ~ValidUTF8(s)
  THEN [ok |-> FALSE]
  ELSE [ok |-> TRUE, any |-> [TypeUrl |-> TypeURL(m), Value |-> Marshal(m)]]

\* (*anypb.Any).UnmarshalNew()
UnmarshalNew(a) ==
  CASE a.TypeUrl = "type.googleapis.com/google.rpc.BadRequest" ->
         [type |-> "errdetails.BadRequest",
          FieldViolations |->
            [i \in 1..Len(a.Value) |->
               [Field |-> a.Value[i][1], Description |-> a.Value[i][2]]]]
    [] a.TypeUrl = "type.googleapis.com/google.rpc.PreconditionFailure" ->
         [type |-> "errdetails.PreconditionFailure",
          Violations |->
            [i \in 1..Len(a.Value) |->
               [Type |-> a.Value[i][1], Subject |-> a.Value[i][2],
                Description |-> a.Value[i][3]]]]
    [] a.TypeUrl = "type.googleapis.com/google.rpc.ResourceInfo" ->
         [type |-> "errdetails.ResourceInfo", ResourceType |-> a.Value[1],
          ResourceName |-> a.Value[2], Owner |-> a.Value[3],
          Description |-> a.Value[4]]
    [] a.TypeUrl = "type.googleapis.com/google.rpc.ErrorInfo" ->
         [type |-> "errdetails.ErrorInfo", Reason |-> a.Value[1],
          Domain |-> a.Value[2], Metadata |-> a.Value[3]]
    [] a.TypeUrl = "type.googleapis.com/google.rpc.LocalizedMessage" ->
         [type |-> "errdetails.LocalizedMessage", Locale |-> a.Value[1],
          Message |-> a.Value[2]]

\* The non-nil results of a per-detail conversion, in order.
NonNil(ms) == SelectSeq(ms, LAMBDA m : m # NilMessage)

\* One of the per-detail conversions panicked: the panic unwinds the whole
\* forward conversion.
Panicked(ms) == \E i \in 1..Len(ms) : ms[i] = Panic

(***************************************************************************)
(* google.golang.org/grpc/status                                           *)
(***************************************************************************)
\* status.New(c, msg)
StatusNew(c, msg) == [code |-> c, message |-> msg, details |-> << >>]

\* (*Status).WithDetails(details...): an OK status takes no details, and one
\* detail that does not pack fails the whole call.
StatusWithDetails(st, details) ==
  IF st.code = codesOK \/ \E i \in 1..Len(details) : ~AnyNew(details[i]).ok
  THEN [ok |-> FALSE]
  ELSE [ok |-> TRUE,
        st |-> [st EXCEPT !.details =
                  @ \o [i \in 1..Len(details) |-> AnyNew(details[i]).any]]]

\* (*Status).Details()
StatusDetails(st) == [i \in 1..Len(st.details) |-> UnmarshalNew(st.details[i])]

(***************************************************************************)
(* connectrpc.com/connect                                                  *)
(***************************************************************************)
\* connect.NewError(c, underlying)
ConnectNewError(c, err) == [code |-> c, err |-> err, details |-> << >>]

\* (*connect.Error).Message()
ConnectMessage(h, ce) == IF ce.err # 0 THEN ErrorString(h, ce.err) ELSE ""

\* connect.NewErrorDetail(pm) then ce.AddDetail(detail), for each message in
\* turn; a message that does not pack is skipped.
RECURSIVE AddDetails(_, _)
AddDetails(ce, pms) ==
  IF Len(pms) = 0 THEN ce
  ELSE LET r == AnyNew(Head(pms)) IN
       AddDetails(IF r.ok THEN [ce EXCEPT !.details = Append(@, r.any)] ELSE ce,
                  Tail(pms))

\* d.Value() for each detail of ce.Details().
ConnectValues(ce) == [i \in 1..Len(ce.details) |-> UnmarshalNew(ce.details[i])]

(***************************************************************************)
(* herr: RFC 9457 problem details.                                         *)
(***************************************************************************)
\* http.StatusText(status): empty for a status net/http has no text for.
StatusText(status) ==
  CASE status = StatusOK                  -> "OK"
    [] status = StatusBadRequest          -> "Bad Request"
    [] status = StatusUnauthorized        -> "Unauthorized"
    [] status = StatusPaymentRequired     -> "Payment Required"
    [] status = StatusForbidden           -> "Forbidden"
    [] status = StatusNotFound            -> "Not Found"
    [] status = StatusConflict            -> "Conflict"
    [] status = StatusPreconditionFailed  -> "Precondition Failed"
    [] status = StatusTeapot              -> "I'm a teapot"
    [] status = StatusTooManyRequests     -> "Too Many Requests"
    [] status = StatusInternalServerError -> "Internal Server Error"
    [] status = StatusNotImplemented      -> "Not Implemented"
    [] status = StatusServiceUnavailable  -> "Service Unavailable"
    [] status = StatusGatewayTimeout      -> "Gateway Timeout"
    [] OTHER                              -> ""

\* herr.WithInstance(instance) and herr.WithType(typeURI)
WithInstance(instance) == [member |-> "Instance", value |-> instance]
WithType(typeURI) == [member |-> "Type", value |-> typeURI]

\* A ProblemDetailOption of the caller's own, func(p *ProblemDetail) {
\* p.Errors = errors }: the member is a []map[string]any, so a map may hold
\* a value encoding/json has no encoding for (a channel, a func, a NaN).
WithErrors(errors) == [member |-> "Errors", value |-> errors]
Unencodable == [type |-> "chan"]

\* for _, o := range opts { o(p) }
RECURSIVE ApplyOpts(_, _)
ApplyOpts(p, opts) ==
  IF Len(opts) = 0 THEN p
  ELSE ApplyOpts(IF Head(opts).member = "Instance"
                 THEN [p EXCEPT !.Instance = Head(opts).value]
                 ELSE IF Head(opts).member = "Errors"
                 THEN [p EXCEPT !.Errors = Head(opts).value]
                 ELSE [p EXCEPT !.Type = Head(opts).value],
                 Tail(opts))

\* A plausible slip: the instance member names the function that captured
\* the stack.
ProblemOfStack(h, arrs, err, opts) ==
  LET c      == CodeOf(h, err)
      status == ToHTTPStatus(c)
      code   == IF c = NoCode THEN Unknown ELSE c
      title  == IF StatusText(status) = "" THEN code ELSE StatusText(status)
      ds     == DetailsOf(h, arrs, err)
      ms     == [i \in 1..Len(ds) |-> toDetailJSON(ds[i])]
  IN IF Panicked(ms) THEN Panic
     ELSE ApplyOpts([Type |-> "about:blank", Title |-> title, Status |-> status,
                     Detail |-> ErrorString(h, err),
                     Instance |-> IF h[err].stack # 0 THEN "main.handler" ELSE "",
                     Code |-> code,
                     Errors |-> NonNil(ms), LocalizedMessage |-> NilMessage],
                    opts)

\* The body of herr.ToProblemDetail for a non-nil err.
ProblemOf(h, arrs, err, opts) ==
  LET c      == CodeOf(h, err)
      status == ToHTTPStatus(c)
      code   == IF c = NoCode THEN Unknown ELSE c
      title  == IF StatusText(status) = "" THEN code ELSE StatusText(status)
      ds     == DetailsOf(h, arrs, err)
      ms     == [i \in 1..Len(ds) |-> toDetailJSON(ds[i])]
  IN IF Panicked(ms) THEN Panic
     ELSE ApplyOpts([Type |-> "about:blank", Title |-> title, Status |-> status,
                     Detail |-> ErrorString(h, err), Instance |-> "", Code |-> code,
                     Errors |-> NonNil(ms), LocalizedMessage |-> NilMessage],
                    opts)

\* A plausible slip: the code is always derived from the status.
ProblemCodeFromStatus(p) == ToErrxCode(p.Status)

\* A plausible slip: the code member is taken only when it is one of the
\* well-known codes.
ProblemCodeKnownOnly(p) ==
  IF p.Code \in WellKnownCodes THEN p.Code ELSE ToErrxCode(p.Status)

\* The code herr.FromProblemDetail gives the error: the code member, or the
\* status's code when the member is empty.
ProblemCode(p) == IF p.Code # NoCode THEN p.Code ELSE ToErrxCode(p.Status)

(***************************************************************************)
(* The conversions.  wire holds what the forward conversion returned for   *)
(* the error src; recovered names the node the reverse conversion returned.*)
(***************************************************************************)
\* No forward conversion has run yet.
NoWire == [proto |-> "none"]

\* No ParseAcceptLanguage call made yet.
NoParse == [s |-> [ok |-> TRUE, tags |-> << >>], via |-> "none", got |-> ""]

\* httptest.NewRecorder(): no header map entry, no status line (Code reads
\* 200 until one is written), an empty body.
NewRecorder ==
  [wroteHeader |-> FALSE, code |-> StatusOK, header |-> "", sent |-> "",
   body |-> << >>, calls |-> << >>]

\* w.Header().Set("Content-Type", ct): the header map changes; what has
\* gone out with the status line does not.
SetContentType(w, ct) ==
  [w EXCEPT !.header = ct, !.calls = Append(@, [call |-> "Set", arg |-> ct])]

\* The status line and the headers go out once: a later WriteHeader is
\* ignored (net/http logs it as superfluous).
SendHeader(w, status) ==
  IF w.wroteHeader THEN w
  ELSE [w EXCEPT !.wroteHeader = TRUE, !.code = status, !.sent = w.header]

\* w.WriteHeader(status)
WriteHeader(w, status) ==
  [SendHeader(w, status) EXCEPT
     !.calls = Append(@, [call |-> "WriteHeader", arg |-> status])]

\* w.Write(b): sends the header with 200 first when none has gone out, the
\* Content-Type sniffed from the body when the map has none.
Write(w, b) ==
  LET h == IF w.wroteHeader \/ w.header # "" THEN w
           ELSE [w EXCEPT !.header = "text/plain; charset=utf-8"]
  IN [SendHeader(h, StatusOK) EXCEPT
        !.body = @ \o b, !.calls = Append(@, [call |-> "Write", arg |-> b])]

\* What the handler did with w before it returned: a sequence of calls.
RECURSIVE Replay(_, _)
Replay(w, calls) ==
  IF Len(calls) = 0 THEN w
  ELSE LET c == Head(calls) IN
       Replay(CASE c.call = "Set" -> SetContentType(w, c.arg)
                [] c.call = "WriteHeader" -> WriteHeader(w, c.arg)
                [] OTHER -> Write(w, c.arg),
              Tail(calls))

\* json.Marshal(p): the members in declaration order, the omitempty ones
\* left out when empty; an error when a value has no encoding.
JSONMarshal(p) ==
  IF \E i \in 1..Len(p.Errors) : p.Errors[i] = Unencodable
  THEN [err |-> TRUE, b |-> << >>]
  ELSE [err |-> FALSE,
        b |-> << [type |-> p.Type, title |-> p.Title, status |-> p.Status,
                  detail |-> p.Detail,
                  instance |-> IF p.Instance = "" THEN "omitted" ELSE p.Instance,
                  code |-> IF p.Code = "" THEN "omitted" ELSE p.Code,
                  errors |-> IF Len(p.Errors) = 0 THEN << >> ELSE p.Errors,
                  localized_message |-> p.LocalizedMessage] >>]

\* The byte "\n" in a body.
Newline == [text |-> "\n"]

\* The body of the fallback: {"type":"about:blank","title":"Internal Server
\* Error","status":500}
FallbackBody ==
  [type |-> "about:blank", title |-> "Internal Server Error",
   status |-> StatusInternalServerError]

\* A plausible slip: no fallback, the problem's status goes out with an
\* empty body when the encoding fails.
writeProblemDetailNoFallback(w, p) ==
  LET m  == JSONMarshal(p)
      ct == SetContentType(w, "application/problem+json")
  IN Write(Write(WriteHeader(ct, p.Status), m.b), << Newline >>)

\* A plausible slip: the body is written before the header, so the status
\* line goes out as 200.
writeProblemDetailBodyFirst(w, p) ==
  LET m  == JSONMarshal(p)
      ct == SetContentType(w, "application/problem+json")
  IN IF m.err
     THEN Write(WriteHeader(ct, StatusInternalServerError), << FallbackBody, Newline >>)
     ELSE WriteHeader(Write(Write(ct, m.b), << Newline >>), p.Status)

\* herr.writeProblemDetail(w, p)
writeProblemDetail(w, p) ==
  LET m  == JSONMarshal(p)
      ct == SetContentType(w, "application/problem+json")
  IN IF m.err
     THEN Write(WriteHeader(ct, StatusInternalServerError), << FallbackBody, Newline >>)
     ELSE Write(Write(WriteHeader(ct, p.Status), m.b), << Newline >>)

Converted(proto, src, msg) ==
  /\ wire = NoWire
  /\ wire' = [proto |-> proto, src |-> src, msg |-> msg]
  /\ UNCHANGED << tableVars, chainVars, recovered, resent, sideVars >>

\* The reverse conversion returns nil.
RecoveredNil(from) ==
  /\ recovered' = [from |-> from, node |-> 0]
  /\ UNCHANGED << tableVars, chainVars, wire, resent, sideVars >>

\* The reverse conversion returns the last of the nodes it allocated.
RecoveredNodes(from, nodes, arrs, calls) ==
  /\ heap' = heap \o nodes
  /\ arrays' = arrs
  /\ origin' = origin \o calls
  /\ published' = published \o
       [i \in 1..Len(nodes) |-> Observe(heap \o nodes, arrs, stacks, Len(heap) + i)]
  /\ recovered' = [from |-> from, node |-> Len(heap) + Len(nodes)]
  /\ UNCHANGED << tableVars, stacks, wire, resent, sideVars >>

\* errx.New(msg).WithCode(c), then .WithDetails(details...) when there are
\* details: the nodes allocated on the way, the last one being the result.
RecoveredError(from, msg, c, details, spare) ==
  LET n1 == Node("Error", msg, 0, NoCode, NilSlice, NilSlice, 0)
      n2 == [n1 EXCEPT !.code = c]
      r  == AppendCopy(arrays, n2.details, details, spare)
      n3 == [n2 EXCEPT !.details = r.slice]
      c1 == Call("New", 0, NoCode, << >>)
      c2 == Call("WithCode", Len(heap) + 1, c, << >>)
      c3 == Call("WithDetails", Len(heap) + 2, NoCode, details)
  IN IF Len(details) > 0
     THEN RecoveredNodes(from, << n1, n2, n3 >>, r.arrays, << c1, c2, c3 >>)
     ELSE RecoveredNodes(from, << n1, n2 >>, arrays, << c1, c2 >>)

\* What gerr.ToStatus(err) returns, or Panic.
StatusOf(h, arrs, err) ==
  IF err = 0 THEN StatusNew(codesOK, "")
  ELSE LET c  == CodeOf(h, err)
           st == StatusNew(ToGRPCCode(c), ErrorString(h, err))
           ds == DetailsOf(h, arrs, err)
           pms == [i \in 1..Len(ds) |-> gerrToProtoDetail(ds[i])]
           protoDetails == NonNil(pms)
           r  == StatusWithDetails(st, protoDetails)
       IN IF Panicked(pms) THEN Panic
          ELSE IF Len(protoDetails) > 0 /\ r.ok THEN r.st ELSE st

\* (*Status).Err(): nil for an OK status, the status as an error otherwise.
StatusErr(st) == IF st # Panic /\ st.code = codesOK THEN NilMessage ELSE st

\* gerr.ToStatus(err)
ToStatus(err) == Converted("grpc", err, StatusOf(heap, arrays, err))

\* gerr.ToStatus(gerr.FromStatus(st)): the argument is the *errx.Error that
\* FromStatus returned; a nil one is a non-nil error value whose Code method
\* dereferences nil.
ToStatusAgain ==
  /\ recovered.from = "grpc"
  /\ resent = NoWire
  /\ resent' = [proto |-> "grpc", src |-> recovered.node,
                msg |-> IF recovered.node = 0 THEN Panic
                        ELSE StatusOf(heap, arrays, recovered.node)]
  /\ UNCHANGED << tableVars, chainVars, wire, recovered, sideVars >>

\* A plausible slip: the status details are not handed to WithDetails.
FromStatusNoDetails(spare) ==
  /\ wire.proto = "grpc"
  /\ wire.msg # Panic
  /\ recovered.from = "none"
  /\ LET st == wire.msg IN
     IF st.code = codesOK THEN RecoveredNil("grpc")
     ELSE RecoveredError("grpc", st.message, gerrToErrxCode(st.code),
                         << >>, spare)

\* gerr.FromStatus(st)
FromStatus(spare) ==
  /\ wire.proto = "grpc"
  /\ wire.msg # Panic
  /\ recovered.from = "none"
  /\ LET st == wire.msg IN
     IF st.code = codesOK THEN RecoveredNil("grpc")
     ELSE RecoveredError("grpc", st.message, gerrToErrxCode(st.code),
                         StatusDetails(st), spare)

\* A plausible slip: an error that carries no code is taken for no error.
ConnectErrorOfUncoded(h, arrs, err) ==
  IF err = 0 \/ CodeOf(h, err) = NoCode THEN NilMessage
  ELSE LET c  == CodeOf(h, err)
           ce == ConnectNewError(ToConnectCode(c), err)
           ds == DetailsOf(h, arrs, err)
           pms == [i \in 1..Len(ds) |-> cerrToProtoDetail(ds[i])]
       IN IF Panicked(pms) THEN Panic ELSE AddDetails(ce, NonNil(pms))

\* What cerr.ToConnectError(err) returns, or Panic.
ConnectErrorOf(h, arrs, err) ==
  IF err = 0 THEN NilMessage
  ELSE LET c  == CodeOf(h, err)
           ce == ConnectNewError(ToConnectCode(c), err)
           ds == DetailsOf(h, arrs, err)
           pms == [i \in 1..Len(ds) |-> cerrToProtoDetail(ds[i])]
       IN IF Panicked(pms) THEN Panic ELSE AddDetails(ce, NonNil(pms))

\* cerr.ToConnectError(err)
ToConnectError(err) == Converted("connect", err, ConnectErrorOf(heap, arrays, err))

\* cerr.FromConnectError(err)
FromConnectError(spare) ==
  /\ wire.proto = "connect"
  /\ wire.msg # Panic
  /\ recovered.from = "none"
  /\ LET ce == wire.msg IN
     IF ce = NilMessage THEN RecoveredNil("connect")
     ELSE RecoveredError("connect", ConnectMessage(heap, ce),
                         cerrToErrxCode(ce.code), ConnectValues(ce), spare)

\* herr.ToProblemDetail(err, opts...)
ToProblemDetail(err, opts) ==
  IF err = 0 THEN Converted("http", err, NilMessage)
  ELSE Converted("http", err, ProblemOf(heap, arrays, err, opts))

\* A client decodes a problem detail a peer has sent: the members the test
\* suite sets, with or without the code member.
ReceiveProblem(status, code) ==
  Converted("http", 0,
            [Type |-> "about:blank", Title |-> StatusText(status),
             Status |-> status, Detail |-> "user not found", Instance |-> "",
             Code |-> code, Errors |-> << >>, LocalizedMessage |-> NilMessage])

\* herr.FromProblemDetail(p)
FromProblemDetail ==
  /\ wire.proto = "http"
  /\ wire.msg # Panic
  /\ recovered.from = "none"
  /\ LET p == wire.msg IN
     IF p = NilMessage THEN RecoveredNil("http")
     ELSE RecoveredError("http", p.Detail, ProblemCode(p), << >>, FALSE)

TablesInit ==
  /\ errxToHTTP = InitErrxToHTTP
  /\ httpToErrx = InitHTTPToErrx
  /\ regCalls = 0
  /\ lastFwd = [code |-> NoCode, status |-> 0]
  /\ lastRev = [status |-> 0, code |-> NoCode]
  /\ codeFwd = [pkg |-> "", code |-> NoCode, proto |-> 0]
  /\ codeRev = [pkg |-> "", proto |-> 0, code |-> NoCode]

(***************************************************************************)
(* Localization in the interceptors and the middleware.                    *)
(***************************************************************************)
\* The test suites' localizableError: Error() is "validation error" and
\* Localize looks the locale up in messages, falling back to "en".
LocalizableNode(messages, cause) ==
  [kind |-> "localizableError", msg |-> "validation error", cause |-> cause,
   code |-> NoCode, fields |-> NilSlice, details |-> NilSlice, stack |-> 0,
   messages |-> messages]

\* A failure of the protocol's own: the error of status.Error(g, m)
\* ("statusError") or connect.NewError(g, errors.New(m)) ("connectError").
\* Error() is the protocol's rendering of code and message; neither type
\* has a Code() errx.Code method nor a cause the chain walk can reach.
NativeNode(kind, text, native) ==
  [kind |-> kind, msg |-> text, cause |-> 0, code |-> NoCode,
   fields |-> NilSlice, details |-> NilSlice, stack |-> 0, native |-> native]

Localize(n, locale) ==
  IF locale \in DOMAIN n.messages THEN n.messages[locale]
  ELSE IF "en" \in DOMAIN n.messages THEN n.messages["en"]
  ELSE ""

\* errors.As(err, &l) with l errx.Localizable.
RECURSIVE AsLocalizable(_, _)
AsLocalizable(h, err) ==
  IF err = 0 THEN 0
  ELSE IF h[err].kind = "localizableError" THEN err
  ELSE AsLocalizable(h, h[err].cause)

\* An Accept-Language value: its comma-separated entries, or a value whose
\* syntax language.ParseAcceptLanguage rejects as a whole.  An entry is a
\* tag with an explicit weight ";q=" (in tenths) or with none.
AcceptLanguage(tags) == [ok |-> TRUE, tags |-> tags]
Unparsable == [ok |-> FALSE, tags |-> << >>]
Weighted(tag, q) == [tag |-> tag, explicit |-> TRUE, q |-> q]
Unweighted(tag) == [tag |-> tag, explicit |-> FALSE, q |-> 0]

\* language.Parse(entry) followed by Tag.String(): the canonical spelling of
\* a well-formed tag; a tag outside the table is not well-formed.
CanonicalTag ==
  [ja |-> "ja", en |-> "en", fr |-> "fr", de |-> "de",
   JA |-> "ja", en_us |-> "en-US", en_US |-> "en-US"]

WellFormedTag(tag) == tag \in DOMAIN CanonicalTag

\* The scan of language.ParseAcceptLanguage: an entry without a weight
\* weighs 1.0, an entry of weight zero is dropped.
RECURSIVE ScanEntries(_)
ScanEntries(entries) ==
  IF Len(entries) = 0 THEN << >>
  ELSE LET e == Head(entries)
           w == IF e.explicit THEN e.q ELSE 10
       IN IF e.explicit /\ w <= 0 THEN ScanEntries(Tail(entries))
          ELSE << [tag |-> CanonicalTag[e.tag], q |-> w] >>
               \o ScanEntries(Tail(entries))

\* language.ParseAcceptLanguage orders the tags by descending q, keeping
\* the header's order among equals.
RECURSIVE SortByQ(_)
SortByQ(tags) ==
  IF Len(tags) <= 1 THEN tags
  ELSE LET m == CHOOSE i \in 1..Len(tags) :
                  \A j \in 1..Len(tags) :
                    tags[j].q < tags[i].q \/ (tags[j].q = tags[i].q /\ j >= i)
       IN << tags[m] >> \o
          SortByQ([k \in 1..(Len(tags) - 1) |-> IF k < m THEN tags[k] ELSE tags[k + 1]])

\* tags, qs, err := language.ParseAcceptLanguage(s): an error for a value it
\* cannot parse, one ill-formed entry being enough.
LanguageParseAcceptLanguage(s) ==
  IF ~s.ok \/ \E i \in 1..Len(s.tags) : ~WellFormedTag(s.tags[i].tag)
  THEN [err |-> TRUE, tags |-> << >>]
  ELSE [err |-> FALSE, tags |-> SortByQ(ScanEntries(s.tags))]

\* The loop of ParseAcceptLanguage: the index of the strictly highest q.
RECURSIVE BestTag(_, _, _)
BestTag(tags, i, best) ==
  IF i > Len(tags) THEN best
  ELSE BestTag(tags, i + 1, IF tags[i].q > tags[best].q THEN i ELSE best)

ParseAcceptLanguageLast(s) ==
  LET r == LanguageParseAcceptLanguage(s) IN
  IF r.err \/ Len(r.tags) = 0 THEN ""
  ELSE r.tags[Len(r.tags)].tag

\* errx.ParseAcceptLanguage(s) and herr.parseAcceptLanguage(s)
ParseAcceptLanguage(s) ==
  LET r == LanguageParseAcceptLanguage(s) IN
  IF r.err \/ Len(r.tags) = 0 THEN ""
  ELSE r.tags[BestTag(r.tags, 2, 1)].tag

\* The request headers (gRPC: the incoming metadata) the locale functions
\* read.
Header(al, xl) == [AcceptLanguage |-> al, XLocale |-> xl]

\* language.Und, the zero language.Tag.
Und == "und"

\* WithLocaleFunc(f): f is nil or the test suites' function, which returns
\* the X-Locale header.
WithLocaleFunc(f) == [opt |-> "localeFunc", f |-> f]
WithDefaultLocale(tag) == [opt |-> "defaultLocale", tag |-> tag]

\* for _, o := range opts { o(cfg) }
RECURSIVE ApplyLocaleOpts(_, _)
ApplyLocaleOpts(cfg, opts) ==
  IF Len(opts) = 0 THEN cfg
  ELSE LET o == Head(opts) IN
       ApplyLocaleOpts(
         IF o.opt = "localeFunc"
         THEN IF o.f = "nil" THEN cfg ELSE [cfg EXCEPT !.localeFunc = o.f]
         ELSE [cfg EXCEPT !.defaultLocale = o.tag],
         Tail(opts))

\* gerr / cerr newInterceptorConfig(opts); herr's newMiddlewareConfig is the
\* same without a default locale option.
newInterceptorConfig(opts) ==
  ApplyLocaleOpts([localeFunc |-> "default", defaultLocale |-> Und], opts)

\* cfg.localeFunc(header)
CallLocaleFunc(f, header) ==
  IF f = "default" THEN ParseAcceptLanguage(header.AcceptLanguage)
  ELSE header.XLocale

\* The locale appendLocalizedDetail settles on.
ResolveLocale(header, localeFunc, defaultLocale) ==
  LET locale == CallLocaleFunc(localeFunc, header) IN
  IF locale = "" /\ defaultLocale # Und THEN defaultLocale ELSE locale

\* The calls the localization step makes on the way to its decision: the
\* locale function once a Localizable l is found, l.Localize once a locale
\* is settled.
LocaleTrace(l, got, locale, msg) ==
  IF l = 0 THEN << >>
  ELSE << [call |-> "localeFunc", got |-> got] >>
       \o (IF locale = "" THEN << >>
           ELSE << [call |-> "Localize", locale |-> locale, got |-> msg] >>)

\* The forward conversion of err, as a call.
Conversion(err) == [call |-> "convert", err |-> err]

\* gerr / cerr appendLocalizedDetail: the error to convert, with the nodes
\* WithDetails (and Wrap, when the chain has no *errx.Error) allocate.
appendLocalizedDetail(h, arrs, header, err, localeFunc, defaultLocale, spare) ==
  LET l      == AsLocalizable(h, err)
      locale == ResolveLocale(header, localeFunc, defaultLocale)
      msg    == IF l = 0 \/ locale = "" THEN "" ELSE Localize(h[l], locale)
      lm     == << LocalizedMessage(locale, msg) >>
      ex     == AsError(h, err)
      w      == Node("Error", "", err, NoCode, NilSlice, NilSlice, 0)
      rx     == AppendCopy(arrs, h[ex].details, lm, spare)
      rw     == AppendCopy(arrs, NilSlice, lm, spare)
      tr     == LocaleTrace(l, CallLocaleFunc(localeFunc, header), locale, msg)
  IN IF l = 0 \/ locale = "" \/ msg = ""
     THEN [err |-> err, nodes |-> << >>, arrays |-> arrs, calls |-> << >>,
           trace |-> tr]
     ELSE IF ex # 0
     THEN [err |-> Len(h) + 1,
           nodes |-> << [h[ex] EXCEPT !.details = rx.slice] >>,
           arrays |-> rx.arrays,
           calls |-> << Call("WithDetails", ex, NoCode, lm) >>,
           trace |-> tr]
     ELSE [err |-> Len(h) + 2,
           nodes |-> << w, [w EXCEPT !.details = rw.slice] >>,
           arrays |-> rw.arrays,
           calls |-> << Call("Wrap", err, NoCode, << >>),
                        Call("WithDetails", Len(h) + 1, NoCode, lm) >>,
           trace |-> tr]

\* What a handler hands back beside its error, and what an HTTP handler may
\* have done with the ResponseWriter before it returned.
HandlerResponses == { "nil", "response" }

HandlerWrites ==
  { << >>,
    << [call |-> "Set", arg |-> "text/html"] >>,
    << [call |-> "WriteHeader", arg |-> StatusOK] >>,
    << [call |-> "Set", arg |-> "text/html"],
       [call |-> "Write", arg |-> << [text |-> "partial"] >>] >> }

\* An adapter has answered a request whose handler returned src: sent is
\* the error it converted, msg what it wrote.
Intercepted(proto, src, res, msg, header, opts) ==
  /\ wire = NoWire
  /\ \E resp \in HandlerResponses, wrote \in HandlerWrites :
       /\ proto # "http" => wrote = << >>
       /\ proto = "http" => resp = "nil"
       /\ trace' = << [call |-> "handler", resp |-> resp, err |-> src,
                       wrote |-> wrote] >> \o res.trace
       /\ recorder' = IF proto # "http" \/ msg = Panic THEN Replay(recorder, wrote)
                      ELSE writeProblemDetail(Replay(recorder, wrote), msg)
  /\ heap' = heap \o res.nodes
  /\ arrays' = res.arrays
  /\ origin' = origin \o res.calls
  /\ published' = published \o
       [i \in 1..Len(res.nodes) |->
          Observe(heap \o res.nodes, res.arrays, stacks, Len(heap) + i)]
  /\ wire' = [proto |-> proto, src |-> src, msg |-> msg, sent |-> res.err,
              header |-> header, opts |-> opts, resp |-> "nil"]
  /\ UNCHANGED << tableVars, stacks, recovered, resent, lastParse >>

\* A plausible variant: a handler error that is a gRPC status already is
\* returned as it is.
toStatusErrorNative(header, err, opts, spare) ==
  /\ err # 0
  /\ LET cfg == newInterceptorConfig(opts)
         res == appendLocalizedDetail(heap, arrays, header, err,
                                      cfg.localeFunc, cfg.defaultLocale, spare)
     IN Intercepted("grpc", err, [res EXCEPT !.trace = Append(@, Conversion(res.err))],
                    IF heap[err].kind = "statusError"
                    THEN StatusNew(heap[err].native.code, heap[err].native.message)
                    ELSE StatusErr(StatusOf(heap \o res.nodes, res.arrays, res.err)),
                    header, opts)

\* gerr: the unary and stream server interceptors, for a handler that
\* returned err; both end in cfg.toStatusError.
toStatusError(header, err, opts, spare) ==
  /\ err # 0
  /\ LET cfg == newInterceptorConfig(opts)
         res == appendLocalizedDetail(heap, arrays, header, err,
                                      cfg.localeFunc, cfg.defaultLocale, spare)
     IN Intercepted("grpc", err, [res EXCEPT !.trace = Append(@, Conversion(res.err))],
                    StatusErr(StatusOf(heap \o res.nodes, res.arrays, res.err)),
                    header, opts)

\* A plausible slip: the error is converted as the handler returned it.
toConnectErrorPlain(header, err, opts, spare) ==
  /\ err # 0
  /\ Intercepted("connect", err,
                 [err |-> err, nodes |-> << >>, arrays |-> arrays, calls |-> << >>,
                  trace |-> << Conversion(err) >>],
                 ConnectErrorOf(heap, arrays, err), header, opts)

\* cerr: WrapUnary and WrapStreamingHandler, for a handler that returned
\* err; both end in cfg.toConnectError.
toConnectError(header, err, opts, spare) ==
  /\ err # 0
  /\ LET cfg == newInterceptorConfig(opts)
         res == appendLocalizedDetail(heap, arrays, header, err,
                                      cfg.localeFunc, cfg.defaultLocale, spare)
     IN Intercepted("connect", err, [res EXCEPT !.trace = Append(@, Conversion(res.err))],
                    ConnectErrorOf(heap \o res.nodes, res.arrays, res.err),
                    header, opts)

\* herr.Handler for a handler that returned err: writeErrorWithLocale.
writeErrorWithLocale(header, err, opts) ==
  /\ err # 0
  /\ LET cfg    == newInterceptorConfig(opts)
         p      == ProblemOf(heap, arrays, err, << >>)
         l      == AsLocalizable(heap, err)
         locale == CallLocaleFunc(cfg.localeFunc, header)
         msg    == IF l = 0 \/ locale = "" THEN "" ELSE Localize(heap[l], locale)
     IN Intercepted("http", err,
                    [err |-> err, nodes |-> << >>, arrays |-> arrays, calls |-> << >>,
                     trace |-> << Conversion(err) >>
                               \o (IF p = Panic THEN << >>
                                   ELSE LocaleTrace(l, locale, locale, msg))],
                    IF p # Panic /\ msg # ""
                    THEN [p EXCEPT !.LocalizedMessage =
                                     [Locale |-> locale, Message |-> msg]]
                    ELSE p,
                    header, opts)

WireInit ==
  /\ wire = NoWire
  /\ recovered = [from |-> "none", node |-> 0]
  /\ resent = NoWire
  /\ lastParse = NoParse
  /\ recorder = NewRecorder
  /\ trace = << >>

Init ==
  /\ TablesInit
  /\ WireInit
  /\ heap = << >>
  /\ arrays = << >>
  /\ stacks = << >>
  /\ origin = << >>
  /\ published = << >>

(***************************************************************************)
(* Spec: the constructors and the five mutators of *errx.Error.            *)
(***************************************************************************)
Next ==
  \/ \E args \in NewArgs, spare \in BOOLEAN : New("inner", args, spare)
  \/ \E err \in Ptrs : Wrap(err, << >>, FALSE)
  \/ \E e \in ErrorPtrs, args \in WithArgs, spare \in BOOLEAN : With(e, args, spare)
  \/ \E e \in ErrorPtrs : WithCode(e, NotFound)
  \/ \E e \in ErrorPtrs, ds \in DetailInputs, spare \in BOOLEAN : WithDetails(e, ds, spare)
  \/ \E e \in ErrorPtrs, spare \in BOOLEAN : WithFieldViolation(e, "email", "invalid", spare)
  \/ \E e \in ErrorPtrs, fr \in FrameInputs : WithStack(e, fr)

Spec == Init /\ [][Next]_vars

(***************************************************************************)
(* SpecInherit: codes set and overridden along New / NewSentinel / Wrap /  *)
(* WithCode, for every pair of codes of CodeInputs.                        *)
(***************************************************************************)
NextInherit ==
  \/ New("inner", << >>, FALSE)
  \/ \E c \in CodeInputs : NewSentinel("not found", c)
  \/ \E err \in Ptrs : Wrap(err, << >>, FALSE)
  \/ \E e \in ErrorPtrs, c \in CodeInputs : WithCode(e, c)

SpecInherit == Init /\ [][NextInherit]_vars

(***************************************************************************)
(* SpecRender: messages and causes, empty and not, under Wrap and Wrapf.   *)
(***************************************************************************)
RenderMsgs == { "", "context" }

NextRender ==
  \/ \E msg \in RenderMsgs : New(msg, << >>, FALSE)
  \/ ErrorsNew("root")
  \/ \E err \in Ptrs : Wrap(err, << >>, FALSE)
  \/ \E err \in Ptrs, msg \in RenderMsgs : Wrapf(err, msg)
  \/ \E err \in Ptrs : FmtErrorf("outer", err)
  \/ \E e \in ErrorPtrs : WithCode(e, NotFound)

SpecRender == Init /\ [][NextRender]_vars

(***************************************************************************)
(* SpecSentinel: sentinels under Wrap / Wrapf / With / WithDetails layers, *)
(* with and without a code set on the way.                                 *)
(***************************************************************************)
SentinelCodes == { NoCode, NotFound }
LayerCodes == { NoCode, Aborted }

NextSentinel ==
  \/ \E c \in SentinelCodes : NewSentinel("not found", c)
  \/ \E err \in Ptrs : Wrap(err, << >>, FALSE)
  \/ \E err \in Ptrs : Wrapf(err, "outer")
  \/ \E e \in ErrorPtrs, args \in WithArgs : With(e, args, FALSE)
  \/ \E e \in ErrorPtrs, ds \in DetailInputs : WithDetails(e, ds, FALSE)
  \/ \E e \in ErrorPtrs, c \in LayerCodes : WithCode(e, c)

SpecSentinel == Init /\ [][NextSentinel]_vars

(***************************************************************************)
(* SpecChain: chains that mix *errx.Error nodes with foreign errors.       *)
(***************************************************************************)
ForeignCodes == { NoCode, "payment_required" }
WrapArgs == { << StrArg("key2"), StrArg("val2") >> }

NextChain ==
  \/ \E args \in NewArgs : New("inner", args, FALSE)
  \/ ErrorsNew("root")
  \/ \E err \in Ptrs : FmtErrorf("outer", err)
  \/ \E c \in ForeignCodes, cause \in {0} \cup Ptrs : NewCoder("coded", c, cause)
  \/ \E err \in Ptrs, args \in WrapArgs : Wrap(err, args, FALSE)
  \/ \E e \in ErrorPtrs : WithCode(e, NotFound)
  \/ \E e \in ErrorPtrs, ds \in DetailInputs : WithDetails(e, ds, FALSE)

SpecChain == Init /\ [][NextChain]_vars

(***************************************************************************)
(* SpecTables: the HTTP tables under registration and lookups.             *)
(***************************************************************************)
RegCodes == { "payment_required", NotFound }
RegStatuses == { StatusPaymentRequired, StatusNotFound, StatusBadRequest }

NextTables ==
  \/ \E c \in RegCodes, st \in RegStatuses : RegisterCode(c, st)
  \/ \E c \in AllCodes : CallToHTTPStatus(c)
  \/ \E st \in AllStatuses : CallToErrxCode(st)

SpecTables == Init /\ [][NextTables]_vars

(***************************************************************************)
(* SpecCodes: lookups in the gRPC and Connect code tables.  The protocol   *)
(* codes looked up are OK, the sixteen error codes and one code past the   *)
(* last, which no table names.                                             *)
(***************************************************************************)
ProtoCodeInputs == codesOK..(codesUnauthenticated + 1)

NextCodes ==
  \/ \E c \in AllCodes : CallToGRPCCode(c)
  \/ \E g \in ProtoCodeInputs : CallGerrToErrxCode(g)
  \/ \E c \in AllCodes : CallToConnectCode(c)
  \/ \E cc \in ProtoCodeInputs : CallCerrToErrxCode(cc)

SpecCodes == Init /\ [][NextCodes]_vars

(***************************************************************************)
(* SpecWire: an error chain of at most MaxDepth nodes is converted to a    *)
(* protocol error and back by one of the three adapters.  The chain is     *)
(* drawn node by node, innermost first; every node is one the constructors *)
(* and mutators above can build.                                           *)
(***************************************************************************)
Layer(kind, msg, code, details) ==
  [kind |-> kind, msg |-> msg, code |-> code, details |-> details]

AllKinds ==
  << FieldViolation("email", "invalid"),
     PreconditionFailure(<< PreconditionViolation("TOS", "user", "not accepted") >>),
     StringDetail("b"),
     ResourceInfo("user", "users/1", "alice", "missing"),
     ErrorInfo("QUOTA", "example.com", { << "limit", "10" >> }),
     LocalizedMessage("en", "Email is invalid") >>

RootDetails ==
  { << >>,
    AllKinds,
    << FieldViolation("email", "invalid"), FieldViolation(BadUTF8, "invalid") >>,
    << gerrFieldViolation("name", "required"), NilMessage, StringDetail("b") >> }

UpperDetails == { << >>, << ResourceInfo("order", "orders/7", "", "locked") >> }
UpperCodes == { NoCode, Aborted }

RootLayers ==
  { Layer("Error", m, c, ds) : m \in { "", "boom" }, c \in AllCodes, ds \in RootDetails }
  \cup { Layer("SentinelError", "not found", c, << >>) : c \in AllCodes }
  \cup { Layer("errorString", "root", NoCode, << >>) }
  \cup { Layer("coderError", "coded", c, << >>) : c \in ForeignCodes \cup { NotFound } }

UpperLayers ==
  { Layer("Error", m, c, ds) : m \in { "", "ctx" }, c \in UpperCodes, ds \in UpperDetails }
  \cup { Layer("wrapError", "outer", NoCode, << >>),
         Layer("coderError", "coded", NoCode, << >>) }

\* The heap and the backing arrays of the first n layers; layer i wraps
\* layer i - 1.
RECURSIVE Build(_, _)
Build(layers, n) ==
  IF n = 0 THEN [heap |-> << >>, arrays |-> << >>]
  ELSE LET b == Build(layers, n - 1)
           l == layers[n]
           r == AppendCopy(b.arrays, NilSlice, l.details, FALSE)
       IN [heap   |-> Append(b.heap,
                             IF l.kind = "localizableError"
                             THEN LocalizableNode(l.messages, n - 1)
                             ELSE IF "native" \in DOMAIN l
                             THEN NativeNode(l.kind, l.msg, l.native)
                             ELSE Node(l.kind, l.msg, n - 1, l.code, NilSlice,
                                       r.slice, 0)),
           arrays |-> r.arrays]

\* The state once a chain over one of the given innermost layers is built.
InitChain(roots, uppers) ==
  /\ TablesInit
  /\ WireInit
  /\ stacks = << >>
  /\ \E n \in 1..MaxDepth : \E root \in roots, ups \in [2..n -> uppers] :
       LET layers == [i \in 1..n |-> IF i = 1 THEN root ELSE ups[i]]
           b == Build(layers, n)
       IN /\ heap = b.heap
          /\ arrays = b.arrays
          /\ origin = [i \in 1..n |->
                         Call("chain", i - 1, layers[i].code, layers[i].details)]
          /\ published = [i \in 1..n |-> Observe(b.heap, b.arrays, << >>, i)]

InitWire == InitChain(RootLayers, UpperLayers)

OptInputs == { << >>, << WithType("https://example.com/not-found"),
                         WithInstance("/users/alice") >> }

\* The error handed to a forward conversion: nil or the head of the chain.
ErrInputs == { 0, Len(heap) }

NextWire ==
  \/ \E err \in ErrInputs : ToStatus(err)
  \/ \E spare \in BOOLEAN : FromStatus(spare)
  \/ ToStatusAgain
  \/ \E err \in ErrInputs : ToConnectError(err)
  \/ \E spare \in BOOLEAN : FromConnectError(spare)
  \/ \E err \in ErrInputs, opts \in OptInputs : ToProblemDetail(err, opts)
  \/ FromProblemDetail

SpecWire == InitWire /\ [][NextWire]_vars

(***************************************************************************)
(* SpecHTTP: the HTTP adapter with registrations made before any           *)
(* conversion, over chains of every code, and over problem details decoded *)
(* from a peer.                                                            *)
(***************************************************************************)
HTTPRootLayers ==
  { Layer("Error", "boom", c, ds) :
      c \in AllCodes, ds \in { << >>, AllKinds } }

HTTPUpperLayers ==
  { Layer("Error", "", NoCode, << >>), Layer("wrapError", "outer", NoCode, << >>) }

InitHTTP == InitChain(HTTPRootLayers, HTTPUpperLayers)

PeerStatuses == { StatusNotFound, StatusPaymentRequired, StatusTeapot }
PeerCodes == { NoCode, NotFound, "payment_required" }

NextHTTP ==
  \/ \E c \in RegCodes, st \in RegStatuses : wire = NoWire /\ RegisterCode(c, st)
  \/ \E err \in ErrInputs, opts \in OptInputs : ToProblemDetail(err, opts)
  \/ \E st \in PeerStatuses, c \in PeerCodes : ReceiveProblem(st, c)
  \/ FromProblemDetail

SpecHTTP == InitHTTP /\ [][NextHTTP]_vars

(***************************************************************************)
(* SpecNil: the same conversions over chains whose innermost node carries  *)
(* details that cannot be converted: a nil pointer of each canonical type, *)
(* or a message that does not encode.                                      *)
(***************************************************************************)
NilDetails ==
  { << FieldViolation("email", "invalid"), NilPtr(t) >> : t \in CanonicalTypes }
  \cup { << FieldViolation("email", "invalid") >>,
         << FieldViolation(BadUTF8, "invalid"), FieldViolation("email", "invalid") >> }

NilRootLayers ==
  { Layer("Error", "boom", c, ds) : c \in CodeInputs, ds \in NilDetails }

InitNil == InitChain(NilRootLayers, UpperLayers)

SpecNil == InitNil /\ [][NextWire]_vars

(***************************************************************************)
(* Properties of the HTTP code tables.                                     *)
(***************************************************************************)
\* The well-known codes whose HTTP status is also the status of another
\* well-known code that the reverse table prefers.
SharedStatusCodes == { OutOfRange, Aborted, Unknown, DataLoss }

PreferredCode(c) ==
  CASE c = OutOfRange -> InvalidArgument
    [] c = Aborted    -> AlreadyExists
    [] c = Unknown    -> Internal
    [] c = DataLoss   -> Internal
    [] OTHER          -> c

\* The caller fed the status returned by its last ToHTTPStatus call for a
\* well-known code to ToErrxCode, and RegisterCode was never called.
HTTPRoundTripDone ==
  /\ regCalls = 0
  /\ lastFwd.code \in WellKnownCodes
  /\ lastFwd.status # 0
  /\ lastRev.status = lastFwd.status

\* C2 as stated: with no RegisterCode call made, ToErrxCode(ToHTTPStatus(c))
\* is c for every one of the 16 well-known codes.
C2_ExactInverse ==
  HTTPRoundTripDone => lastRev.code = lastFwd.code

\* C2 amended: with no RegisterCode call made, ToErrxCode(ToHTTPStatus(c)) is
\* c for the twelve well-known codes the reverse table names (canceled <-> 499
\* among them) and, for out_of_range, aborted, unknown and data_loss, the
\* code the reverse table holds for the shared status; in every case the
\* code that comes back maps forward to the same status again.
C2_RightInverse ==
  /\ HTTPRoundTripDone =>
       /\ lastRev.code = PreferredCode(lastFwd.code)
       /\ ToHTTPStatus(lastRev.code) = lastFwd.status
  /\ regCalls = 0 =>
       /\ \A c \in WellKnownCodes \ SharedStatusCodes :
            ToErrxCode(ToHTTPStatus(c)) = c
       /\ \A c \in SharedStatusCodes :
            ToErrxCode(ToHTTPStatus(c)) = PreferredCode(c)
       /\ \A st \in DOMAIN httpToErrx : ToHTTPStatus(ToErrxCode(st)) = st

C2_Witness ==
  /\ HTTPRoundTripDone
  /\ lastFwd = [code |-> OutOfRange, status |-> StatusBadRequest]
  /\ lastRev = [status |-> StatusBadRequest, code |-> InvalidArgument]

\* The canonical table, grouped by status.
CanonicalStatus(c) ==
  CASE c \in { InvalidArgument, OutOfRange }  -> 400
    [] c = Unauthenticated                    -> 401
    [] c = PermissionDenied                   -> 403
    [] c = NotFound                           -> 404
    [] c \in { AlreadyExists, Aborted }       -> 409
    [] c = FailedPrecondition                 -> 412
    [] c = ResourceExhausted                  -> 429
    [] c = Canceled                           -> 499
    [] c \in { Internal, Unknown, DataLoss }  -> 500
    [] c = Unimplemented                      -> 501
    [] c = Unavailable                        -> 503
    [] c = DeadlineExceeded                   -> 504
    [] OTHER                                  -> 500

\* C3: with no RegisterCode call made, ToHTTPStatus follows the canonical
\* table for the well-known codes and yields 500 for every other code (the
\* empty code and custom codes included); ToErrxCode yields "unknown" for
\* every status without a reverse entry; both lookups always return a value.
C3_CanonicalTable ==
  regCalls = 0 =>
    /\ \A c \in AllCodes : ToHTTPStatus(c) = CanonicalStatus(c)
    /\ \A st \in AllStatuses \ ReverseStatuses : ToErrxCode(st) = Unknown
    /\ \A st \in AllStatuses : ToErrxCode(st) \in WellKnownCodes
    /\ lastFwd.status # 0 => lastFwd.status = CanonicalStatus(lastFwd.code)
    /\ (lastRev.status # 0 /\ lastRev.status \notin ReverseStatuses)
         => lastRev.code = Unknown

C3_Witness ==
  /\ regCalls = 0
  /\ lastFwd = [code |-> "custom", status |-> StatusInternalServerError]
  /\ lastRev = [status |-> StatusTeapot, code |-> Unknown]

(***************************************************************************)
(* Properties of the error chain.                                          *)
(***************************************************************************)
\* The pointers met while unwrapping from err, outermost first.
RECURSIVE ChainOf(_, _)
ChainOf(h, err) ==
  IF err = 0 THEN << >> ELSE << err >> \o ChainOf(h, h[err].cause)

Mutators == { "With", "WithCode", "WithDetails", "WithFieldViolation", "WithStack" }

OwnFields(e) == Elems(arrays, heap[e].fields)
OwnDetails(e) == Elems(arrays, heap[e].details)

\* d was returned by a mutator called on n: d is n's copy with the one
\* attribute the mutator sets.
DerivedFrom(d, n) ==
  LET call == origin[d] IN
  /\ d # n
  /\ heap[d].kind = "Error"
  /\ heap[d].msg = heap[n].msg
  /\ heap[d].cause = heap[n].cause
  /\ heap[d].code = IF call.op = "WithCode" THEN call.code ELSE heap[n].code
  /\ OwnFields(d) = OwnFields(n) \o (IF call.op = "With" THEN call.added ELSE << >>)
  /\ OwnDetails(d) = OwnDetails(n) \o
       (IF call.op \in { "WithDetails", "WithFieldViolation" } THEN call.added ELSE << >>)
  /\ IF call.op = "WithStack"
     THEN heap[d].stack # 0 /\ heap[d].stack # heap[n].stack
     ELSE heap[d].stack = heap[n].stack

\* C4: every mutator returns a new node and leaves the receiver as it was:
\* whatever calls follow, Error(), Code(), Fields, DetailsOf and StackOf of
\* every published node return what they returned when it was published, and
\* a derived node holds its receiver's fields / details followed only by its
\* own additions.
C4_PublishedNodesImmutable ==
  /\ \A e \in Ptrs : Observe(heap, arrays, stacks, e) = published[e]
  /\ \A d \in Ptrs : origin[d].op \in Mutators => DerivedFrom(d, origin[d].recv)

\* Two different derivations from one receiver, one of them derived further.
C4_Witness ==
  \E n \in ErrorPtrs, d1 \in ErrorPtrs, d2 \in ErrorPtrs :
    /\ origin[d1].op = "WithDetails" /\ origin[d1].recv = n
    /\ origin[d2].op = "WithFieldViolation" /\ origin[d2].recv = n
    /\ OwnDetails(n) # << >>
    /\ OwnDetails(d1) # OwnDetails(d2)

\* The code of the first code carrier below err: an *Error that has no code
\* of its own is looked through, any other carrier answers for itself.
RECURSIVE FirstCarrierCode(_, _)
FirstCarrierCode(h, err) ==
  IF err = 0 THEN NoCode
  ELSE IF h[err].kind = "Error"
       THEN IF h[err].code # NoCode THEN h[err].code
            ELSE FirstCarrierCode(h, h[err].cause)
  ELSE IF IsCoder(h[err]) THEN h[err].code
  ELSE FirstCarrierCode(h, h[err].cause)

CarriesCode(h, err) ==
  \E i \in 1..Len(ChainOf(h, err)) : h[ChainOf(h, err)[i]].code # NoCode

\* A foreign carrier that reports the empty code stands above every coded
\* node of the chain.
HiddenByEmptyCarrier(h, err) ==
  LET ch == ChainOf(h, err) IN
  \E i \in 1..Len(ch) :
    /\ h[ch[i]].kind \notin { "Error" }
    /\ IsCoder(h[ch[i]])
    /\ \A j \in 1..i : h[ch[j]].code = NoCode

OwnOrInherited(e) ==
  /\ heap[e].code # NoCode => published[e].code = heap[e].code
  /\ heap[e].code = NoCode => published[e].code = FirstCarrierCode(heap, heap[e].cause)

\* C5 as stated: Code() is the own code when non-empty, else the code of the
\* first code carrier of the cause chain, and it is empty exactly when no
\* node of the chain carries a non-empty code.
C5_EmptyIffNoCode ==
  \A e \in ErrorPtrs :
    /\ OwnOrInherited(e)
    /\ published[e].code = NoCode <=> ~CarriesCode(heap, e)

\* C5 amended: Code() is the own code when non-empty, else the code of the
\* first code carrier of the cause chain; it is empty whenever no node of the
\* chain carries a non-empty code, and otherwise only when a foreign code
\* carrier that itself reports the empty code stands above every coded node.
\* CodeOf(nil) and CodeOf of a chain without a code carrier are empty.
C5_CodeResolution ==
  /\ \A e \in ErrorPtrs :
       /\ OwnOrInherited(e)
       /\ ~CarriesCode(heap, e) => published[e].code = NoCode
       /\ (published[e].code = NoCode /\ CarriesCode(heap, e))
            => HiddenByEmptyCarrier(heap, e)
  /\ CodeOf(heap, 0) = NoCode
  /\ \A e \in Ptrs : AsCoder(heap, e) = 0 => published[e].code = NoCode

\* A wrapper without a code of its own above a coded *Error, reached through
\* a foreign wrapper.
C5_Witness ==
  \E e \in ErrorPtrs :
    /\ heap[e].code = NoCode
    /\ heap[e].cause # 0
    /\ heap[heap[e].cause].kind = "wrapError"
    /\ published[e].code = NotFound

\* The own fields / details of the given nodes, concatenated in order.
RECURSIVE Flatten(_, _, _)
Flatten(h, arrs, ids) ==
  IF ids = << >> THEN [fields |-> << >>, details |-> << >>]
  ELSE LET rest == Flatten(h, arrs, Tail(ids)) IN
       [fields  |-> Elems(arrs, h[Head(ids)].fields) \o rest.fields,
        details |-> Elems(arrs, h[Head(ids)].details) \o rest.details]

\* The *Error nodes at the front of the chain, up to the first other node.
RECURSIVE LeadingErrors(_, _)
LeadingErrors(h, err) ==
  IF err = 0 \/ h[err].kind # "Error" THEN << >>
  ELSE << err >> \o LeadingErrors(h, h[err].cause)

\* Every *Error node of the chain.
AllErrors(h, err) == SelectSeq(ChainOf(h, err), LAMBDA i : h[i].kind = "Error")

\* C7 as stated: Fields and DetailsOf concatenate the own fields / details of
\* the chain's nodes outermost first and stop at the first node that is not
\* an *errx.Error.
C7_StopsAtForeign ==
  \A e \in Ptrs :
    /\ published[e].fields = Flatten(heap, arrays, LeadingErrors(heap, e)).fields
    /\ published[e].details = Flatten(heap, arrays, LeadingErrors(heap, e)).details

\* C7 amended: Fields and DetailsOf concatenate, outermost first, the own
\* fields / details of every *errx.Error node that unwrapping reaches; a
\* foreign error that wraps (fmt.Errorf("%w"), a type with Unwrap) is passed
\* through, and the walk ends only where no *errx.Error lies beneath.
C7_WalksThroughForeign ==
  \A e \in Ptrs :
    /\ published[e].fields = Flatten(heap, arrays, AllErrors(heap, e)).fields
    /\ published[e].details = Flatten(heap, arrays, AllErrors(heap, e)).details

C7_Witness ==
  \E e \in ErrorPtrs :
    /\ OwnFields(e) # << >>
    /\ heap[e].cause # 0
    /\ heap[heap[e].cause].kind = "wrapError"
    /\ Len(published[e].fields) > Len(OwnFields(e))
    /\ published[e].details # << >>

\* inner is New("inner").WithCode(a) or a sentinel that carries a.
InnerWithCode(inner, a) ==
  \/ /\ origin[inner].op = "WithCode"
     /\ origin[inner].code = a
     /\ origin[origin[inner].recv].op = "New"
  \/ /\ origin[inner].op = "NewSentinel"
     /\ origin[inner].code = a

\* w is Wrap(inner) for such an inner error.
WrapsInner(w, a) == origin[w].op = "Wrap" /\ InnerWithCode(origin[w].recv, a)

\* C6 as stated: Wrap(New("inner").WithCode(A)).Code() is A and
\* Wrap(...).WithCode(B).Code() is B, for every pair of codes A and B
\* (well-known, custom or empty), also when the inner error is a sentinel.
C6_OverrideAlwaysWins ==
  \A w \in Ptrs, a \in CodeInputs :
    WrapsInner(w, a) =>
      /\ published[w].code = a
      /\ \A o \in Ptrs :
           (origin[o].op = "WithCode" /\ origin[o].recv = w)
             => published[o].code = origin[o].code

\* C6 amended: Wrap(New("inner").WithCode(A)).Code() is A, and
\* Wrap(...).WithCode(B).Code() is B for every non-empty B; WithCode("")
\* clears the wrapper's own code, so the result is A again.  The same holds
\* when the inner error is a sentinel carrying A.
C6_InheritAndOverride ==
  \A w \in Ptrs, a \in CodeInputs :
    WrapsInner(w, a) =>
      /\ published[w].code = a
      /\ Code(heap, w) = a
      /\ \A o \in Ptrs :
           (origin[o].op = "WithCode" /\ origin[o].recv = w)
             => /\ published[o].code =
                     IF origin[o].code # NoCode THEN origin[o].code ELSE a
                /\ Code(heap, o) = published[o].code

C6_Witness ==
  \E w \in Ptrs, o \in Ptrs :
    /\ WrapsInner(w, NotFound)
    /\ origin[origin[w].recv].op = "WithCode"
    /\ origin[o].op = "WithCode" /\ origin[o].recv = w
    /\ origin[o].code = "payment_required"
    /\ published[o].code = "payment_required"

(***************************************************************************)
(* Round trips through the adapters (SpecWire).                            *)
(***************************************************************************)
RoundTripDone == recovered.from # "none" /\ wire.src # 0

\* C1: for every error whose code is one of the sixteen well-known codes,
\* and for each of the three adapters, the error returned by FromX(ToX(e))
\* has e's code and e's Error() string, whatever the shape of e's chain.
C1_RoundTripCodeAndMessage ==
  (RoundTripDone /\ CodeOf(heap, wire.src) \in WellKnownCodes) =>
    /\ recovered.node # 0
    /\ Code(heap, recovered.node) = CodeOf(heap, wire.src)
    /\ ErrorString(heap, recovered.node) = ErrorString(heap, wire.src)

\* A code that shares its HTTP status with another code, inherited through
\* a foreign wrapper, has come back over HTTP.
C1_Witness ==
  /\ RoundTripDone
  /\ recovered.from = "http"
  /\ heap[wire.src].kind = "wrapError"
  /\ CodeOf(heap, wire.src) = OutOfRange
  /\ Code(heap, recovered.node) = OutOfRange
  /\ ErrorString(heap, recovered.node) = "outer: boom"

\* The details the wire payload carries, as the receiving side reads them.
WireDetails ==
  CASE wire.proto = "grpc"    -> StatusDetails(wire.msg)
    [] wire.proto = "connect" -> ConnectValues(wire.msg)
    [] wire.proto = "http"    -> wire.msg.Errors

\* C8: every reverse conversion restores the details of the wire payload:
\* DetailsOf(FromX(ToX(e))) has one entry, in the same order, for every
\* detail ToX(e) put on the wire (gerr, cerr and herr alike).
C8_DetailsRestored ==
  (RoundTripDone /\ recovered.node # 0) =>
    LET rs == DetailsOf(heap, arrays, recovered.node) IN
    /\ Len(rs) = Len(WireDetails)
    /\ wire.proto \in { "grpc", "connect" } => rs = WireDetails

\* r is the google.rpc message of the detail d: the matching message with
\* equal member values for a canonical kind, d itself for a native message.
NativeOf(d, r) ==
  CASE d.type = "errx.BadRequestDetail" ->
         /\ r.type = "errdetails.BadRequest"
         /\ Len(r.FieldViolations) = Len(d.Violations)
         /\ \A i \in 1..Len(d.Violations) :
              /\ r.FieldViolations[i].Field = d.Violations[i].Field
              /\ r.FieldViolations[i].Description = d.Violations[i].Description
    [] d.type = "errx.PreconditionFailureDetail" ->
         /\ r.type = "errdetails.PreconditionFailure"
         /\ Len(r.Violations) = Len(d.Violations)
         /\ \A i \in 1..Len(d.Violations) :
              /\ r.Violations[i].Type = d.Violations[i].Type
              /\ r.Violations[i].Subject = d.Violations[i].Subject
              /\ r.Violations[i].Description = d.Violations[i].Description
    [] d.type = "errx.ResourceInfoDetail" ->
         /\ r.type = "errdetails.ResourceInfo"
         /\ r.ResourceType = d.ResourceType
         /\ r.ResourceName = d.ResourceName
         /\ r.Owner = d.Owner
         /\ r.Description = d.Description
    [] d.type = "errx.ErrorInfoDetail" ->
         /\ r.type = "errdetails.ErrorInfo"
         /\ r.Reason = d.Reason
         /\ r.Domain = d.Domain
         /\ r.Metadata = d.Metadata
    [] OTHER -> d.type \in ProtoTypes /\ r = d

RPCRoundTripDone == RoundTripDone /\ recovered.from \in { "grpc", "connect" }

\* C9 as stated: a canonical detail of e whose encoding is on the wire comes
\* back from the gerr and cerr round trips as a detail of the same errx
\* canonical type with equal member values.
C9_CanonicalRestored ==
  (RPCRoundTripDone /\ recovered.node # 0) =>
    LET ds == DetailsOf(heap, arrays, wire.src)
        rs == DetailsOf(heap, arrays, recovered.node)
    IN \A i \in 1..Len(ds) :
         ( /\ ds[i].type \in CanonicalTypes
           /\ \E k \in 1..Len(WireDetails) : NativeOf(ds[i], WireDetails[k]) )
         => \E j \in 1..Len(rs) : rs[j] = ds[i]

\* C9 as amended: the gerr and cerr round trips return protocol-native
\* messages only; every recovered detail is the google.rpc message of one
\* of e's details, with equal member values for a canonical kind, and there
\* is one for each detail on the wire.
C9_NativeRestored ==
  (RPCRoundTripDone /\ recovered.node # 0) =>
    LET ds == DetailsOf(heap, arrays, wire.src)
        rs == DetailsOf(heap, arrays, recovered.node)
    IN /\ Len(rs) = Len(wire.msg.details)
       /\ \A j \in 1..Len(rs) :
            /\ rs[j].type \in ProtoTypes
            /\ \E i \in 1..Len(ds) : NativeOf(ds[i], rs[j])

\* All four canonical kinds have come back from a gRPC round trip as their
\* google.rpc messages.
C9_Witness ==
  /\ RPCRoundTripDone
  /\ recovered.from = "grpc"
  /\ recovered.node # 0
  /\ LET ds == DetailsOf(heap, arrays, wire.src)
         rs == DetailsOf(heap, arrays, recovered.node)
     IN /\ \A t \in CanonicalTypes : \E i \in 1..Len(ds) : ds[i].type = t
        /\ \A i \in 1..Len(ds) :
             ds[i].type \in CanonicalTypes =>
               \E j \in 1..Len(rs) : NativeOf(ds[i], rs[j])

\* The details a forward conversion is to carry: the canonical kinds and
\* the native messages, leaving out those whose message does not encode.
Convertible(ds) ==
  SelectSeq(ds, LAMBDA d : /\ d.type \in CanonicalTypes \cup ProtoTypes
                           /\ AnyNew(cerrToProtoDetail(d)).ok)

\* C10: gerr.ToStatus and cerr.ToConnectError carry, in the same relative
\* order, exactly one native detail per input detail that is a canonical
\* kind (as the matching google.rpc message with equal member values) or a
\* native message (unchanged), and nothing else.  A detail that does not
\* encode is left out of the count, as the best-effort rule allows.
C10_OneNativePerConvertible ==
  (wire.proto \in { "grpc", "connect" } /\ wire.src # 0) =>
    LET conv == Convertible(DetailsOf(heap, arrays, wire.src))
        out  == WireDetails
    IN /\ Len(out) = Len(conv)
       /\ \A k \in 1..Len(conv) : NativeOf(conv[k], out[k])

(***************************************************************************)
(* Best-effort detail conversion (SpecNil).                                *)
(***************************************************************************)
\* C11: in every forward conversion (gerr.ToStatus, cerr.ToConnectError,
\* herr.ToProblemDetail) no panic reaches the caller, whatever the details
\* are, and a detail that fails to convert or encode is the only one left
\* out: every other convertible detail of the error is in the output, in
\* order.
C11_BestEffortPerDetail ==
  (wire.proto # "none" /\ wire.src # 0) =>
    /\ wire.msg # Panic
    /\ LET ds == DetailsOf(heap, arrays, wire.src) IN
       IF wire.proto = "http"
       THEN Len(wire.msg.Errors) =
              Len(SelectSeq(ds, LAMBDA d : d.type \in CanonicalTypes))
       ELSE /\ Len(WireDetails) = Len(Convertible(ds))
            /\ \A k \in 1..Len(WireDetails) :
                 NativeOf(Convertible(ds)[k], WireDetails[k])

(***************************************************************************)
(* Registration (SpecTables).                                              *)
(***************************************************************************)
\* C12: each herr.RegisterCode(c, s) call, in any sequence of calls, leaves
\* ToHTTPStatus(c) = s and ToErrxCode(s) = c, and changes neither the forward
\* mapping of any other code nor the reverse mapping of any other status,
\* nor anything outside the two tables.
C12_RegisterCodeFrame ==
  [][ regCalls' # regCalls =>
        /\ \E c \in RegCodes, s \in RegStatuses :
             /\ ToHTTPStatus(c)' = s
             /\ ToErrxCode(s)' = c
             /\ \A c2 \in AllCodes \ { c } : ToHTTPStatus(c2)' = ToHTTPStatus(c2)
             /\ \A s2 \in AllStatuses \ { s } : ToErrxCode(s2)' = ToErrxCode(s2)
        /\ UNCHANGED << chainVars, wireVars >> ]_vars

\* Two registrations have been made, the second one over a well-known code
\* and a status the first one had taken.
C12_Witness ==
  /\ regCalls = 2
  /\ ToHTTPStatus("payment_required") = StatusPaymentRequired
  /\ ToHTTPStatus(NotFound) = StatusPaymentRequired
  /\ ToErrxCode(StatusPaymentRequired) = NotFound
  /\ ToErrxCode(StatusNotFound) = NotFound

(***************************************************************************)
(* The gRPC and Connect code tables (SpecCodes).                           *)
(***************************************************************************)
ErrorProtoCodes == codesCanceled..codesUnauthenticated

\* The forward and the reverse lookup were made in the same package.
SamePackage == codeFwd.pkg # "" /\ codeFwd.pkg = codeRev.pkg

\* C13: in gerr and in cerr alike, the reverse lookup of a well-known code's
\* protocol code is that code, the forward lookup of a non-OK protocol
\* code's errx code is that protocol code, a custom or empty code maps
\* forward to Unknown and so comes back as "unknown", the OK/zero protocol
\* code maps to the empty code, and a protocol code no table names maps to
\* "unknown".
C13_CodeTables ==
  /\ (codeFwd.pkg # "" /\ codeFwd.code \in WellKnownCodes)
       => codeFwd.proto \in ErrorProtoCodes
  /\ (codeFwd.pkg # "" /\ codeFwd.code \notin WellKnownCodes)
       => codeFwd.proto = codesUnknown
  /\ (codeRev.pkg # "" /\ codeRev.proto = codesOK) => codeRev.code = NoCode
  /\ (codeRev.pkg # "" /\ codeRev.proto \notin GRPCCodes) => codeRev.code = Unknown
  /\ (SamePackage /\ codeRev.proto = codeFwd.proto)
       => codeRev.code = IF codeFwd.code \in WellKnownCodes
                         THEN codeFwd.code ELSE Unknown
  /\ (SamePackage /\ codeRev.proto \in ErrorProtoCodes /\ codeFwd.code = codeRev.code)
       => codeFwd.proto = codeRev.proto

\* A custom code has gone forward through the Connect table and its
\* protocol code has come back as "unknown".
C13_Witness ==
  /\ SamePackage
  /\ codeFwd.pkg = "cerr"
  /\ codeFwd.code \in CustomCodes
  /\ codeRev.proto = codeFwd.proto
  /\ codeRev.code = Unknown

(***************************************************************************)
(* The HTTP adapter (SpecHTTP).                                            *)
(***************************************************************************)
HTTPRecovered == recovered.from = "http" /\ recovered.node # 0

\* C14: herr.FromProblemDetail(p) takes the code from p.Code when that is
\* non-empty and from ToErrxCode(p.Status) only otherwise; so an error with
\* a non-empty code, well-known or custom, registered or not, comes back
\* from FromProblemDetail(ToProblemDetail(e)) with its code, and an error
\* with no code comes back as "unknown".
C14_CodePreserved ==
  HTTPRecovered =>
    /\ wire.msg.Code # NoCode => Code(heap, recovered.node) = wire.msg.Code
    /\ wire.msg.Code = NoCode
         => Code(heap, recovered.node) = ToErrxCode(wire.msg.Status)
    /\ wire.src # 0 =>
         Code(heap, recovered.node) =
           IF CodeOf(heap, wire.src) # NoCode THEN CodeOf(heap, wire.src)
           ELSE Unknown

\* A custom code that was never registered, inherited through a foreign
\* wrapper, has come back over HTTP.
C14_Witness ==
  /\ HTTPRecovered
  /\ wire.src # 0
  /\ regCalls = 0
  /\ heap[wire.src].kind = "wrapError"
  /\ CodeOf(heap, wire.src) = "payment_required"
  /\ wire.msg.Status = StatusInternalServerError
  /\ Code(heap, recovered.node) = "payment_required"

\* The tag herr writes for a canonical kind.
ProblemTag(t) ==
  CASE t = "errx.BadRequestDetail"          -> "BadRequest"
    [] t = "errx.PreconditionFailureDetail" -> "PreconditionFailure"
    [] t = "errx.ResourceInfoDetail"        -> "ResourceInfo"
    [] t = "errx.ErrorInfoDetail"           -> "ErrorInfo"

\* C15: herr.ToProblemDetail(err) for a non-nil err has type "about:blank"
\* unless WithType sets it, instance empty unless WithInstance sets it,
\* status ToHTTPStatus(CodeOf(err)), title the status's reason phrase or the
\* code string when there is none (499), detail err.Error(), code CodeOf(err)
\* or "unknown" when that is empty, errors one tagged object per canonical
\* detail of DetailsOf(err) in order and nothing for the others, and no
\* localized_message.
C15_ProblemDetailShape ==
  (wire.proto = "http" /\ wire.src # 0) =>
    LET p     == wire.msg
        c     == CodeOf(heap, wire.src)
        canon == SelectSeq(DetailsOf(heap, arrays, wire.src),
                           LAMBDA d : d.type \in CanonicalTypes)
    IN /\ \/ p.Type = "about:blank" /\ p.Instance = ""
          \/ p.Type = "https://example.com/not-found" /\ p.Instance = "/users/alice"
       /\ p.Status = ToHTTPStatus(c)
       /\ p.Code = IF c = NoCode THEN Unknown ELSE c
       /\ p.Title # ""
       /\ p.Status = StatusClientClosedRequest => p.Title = p.Code
       /\ p.Status = StatusNotFound => p.Title = "Not Found"
       /\ p.Status = StatusPaymentRequired => p.Title = "Payment Required"
       /\ p.Status = StatusInternalServerError => p.Title = "Internal Server Error"
       /\ p.Detail = ErrorString(heap, wire.src)
       /\ Len(p.Errors) = Len(canon)
       /\ \A k \in 1..Len(canon) : p.Errors[k].type = ProblemTag(canon[k].type)
       /\ p.LocalizedMessage = NilMessage

\* A canceled error with details of every kind has been converted with
\* both options: the title falls back to the code and the four canonical
\* details are the errors.
C15_Witness ==
  /\ wire.proto = "http"
  /\ wire.src # 0
  /\ wire.msg.Status = StatusClientClosedRequest
  /\ wire.msg.Title = Canceled
  /\ wire.msg.Type = "https://example.com/not-found"
  /\ Len(wire.msg.Errors) = 4
  /\ Len(DetailsOf(heap, arrays, wire.src)) = 6

(***************************************************************************)
(* SpecLocale: the three adapters answer a request whose handler returned  *)
(* the head of a chain, localizable or not.                                *)
(***************************************************************************)
LocalizableLayer(messages) ==
  [kind |-> "localizableError", msg |-> "validation error", code |-> NoCode,
   details |-> << >>, messages |-> messages]

MessageTables ==
  { [en |-> "Name is required", ja |-> "Namae wa hissu desu"],
    [ja |-> "Namae wa hissu desu"] }

LocaleRootLayers ==
  { LocalizableLayer(m) : m \in MessageTables }
  \cup { Layer("errorString", "root", NoCode, << >>),
         Layer("Error", "boom", NotFound, << FieldViolation("email", "invalid") >>) }

LocaleUpperLayers ==
  { Layer("Error", "", InvalidArgument, ds) :
      ds \in { << >>, << FieldViolation("email", "invalid") >>,
               << FieldViolation(BadUTF8, "invalid") >> } }
  \cup { Layer("wrapError", "outer", NoCode, << >>) }

InitLocale == InitChain(LocaleRootLayers, LocaleUpperLayers)

AcceptLanguageInputs ==
  { AcceptLanguage(<< >>),
    AcceptLanguage(<< Weighted("ja", 10) >>),
    AcceptLanguage(<< Weighted("en", 5), Weighted("ja", 9), Weighted("fr", 9) >>),
    Unparsable }

HeaderInputs == { Header(al, xl) : al \in AcceptLanguageInputs, xl \in { "", "ja-JP" } }

MiddlewareOpts ==
  { << >>, << WithLocaleFunc("nil") >>, << WithLocaleFunc("X-Locale") >>,
    << WithLocaleFunc("X-Locale"), WithLocaleFunc("nil") >> }

InterceptorOpts ==
  MiddlewareOpts
  \cup { << WithDefaultLocale("en") >>,
         << WithDefaultLocale("en"), WithLocaleFunc("X-Locale") >>,
         << WithLocaleFunc("X-Locale"), WithDefaultLocale(Und) >> }

NextLocale ==
  \/ \E hd \in HeaderInputs, opts \in InterceptorOpts, spare \in BOOLEAN :
       toStatusError(hd, Len(heap), opts, spare)
  \/ \E hd \in HeaderInputs, opts \in InterceptorOpts, spare \in BOOLEAN :
       toConnectError(hd, Len(heap), opts, spare)
  \/ \E hd \in HeaderInputs, opts \in MiddlewareOpts :
       writeErrorWithLocale(hd, Len(heap), opts)

SpecLocale == InitLocale /\ [][NextLocale]_vars

(***************************************************************************)
(* Rendering (SpecRender).                                                 *)
(***************************************************************************)
\* The error beneath every message-less *errx.Error wrapper above it.
RECURSIVE Innermost(_, _)
Innermost(h, e) ==
  IF h[e].kind = "Error" /\ h[e].msg = "" /\ h[e].cause # 0
  THEN Innermost(h, h[e].cause)
  ELSE e

\* C16: Error() of an *errx.Error node is the cause's Error() verbatim when
\* the message is empty and there is a cause, the message when there is no
\* cause, and message + ": " + cause.Error() otherwise; so a chain of
\* message-less wrappers of any depth renders as its innermost error; and
\* Unwrap() is the cause the node was built over.
C16_ErrorRendering ==
  \A e \in ErrorPtrs :
    LET n == heap[e]
        s == ErrorString(heap, e) IN
    /\ (n.msg = "" /\ n.cause # 0) => s = ErrorString(heap, n.cause)
    /\ n.cause = 0 => s = n.msg
    /\ (n.msg # "" /\ n.cause # 0)
         => s = n.msg \o ": " \o ErrorString(heap, n.cause)
    /\ s = ErrorString(heap, Innermost(heap, e))
    /\ s = published[e].error
    /\ origin[e].op \in {"Wrap", "Wrapf"} => Unwrap(heap, e) = origin[e].recv
    /\ origin[e].op = "New" => Unwrap(heap, e) = 0
    /\ origin[e].op = "WithCode" => Unwrap(heap, e) = Unwrap(heap, origin[e].recv)

\* Two message-less wrappers over Wrapf(errors.New("root"), "context")
\* render as "context: root".
C16_Witness ==
  \E e \in ErrorPtrs :
    /\ origin[e].op = "Wrap"
    /\ heap[e].cause # 0
    /\ origin[heap[e].cause].op = "Wrap"
    /\ Innermost(heap, e) = heap[heap[e].cause].cause
    /\ heap[Innermost(heap, e)].msg = "context"
    /\ ErrorString(heap, e) = "context: root"

(***************************************************************************)
(* Sentinels (SpecSentinel).                                               *)
(***************************************************************************)
SentinelPtrs == { s \in Ptrs : heap[s].kind = "SentinelError" }
LayerOps == {"Wrap", "Wrapf", "With", "WithDetails", "WithCode"}

\* e was built from the sentinel s by the recorded calls alone.
RECURSIVE BuiltOver(_, _)
BuiltOver(e, s) ==
  /\ origin[e].op \in LayerOps
  /\ \/ origin[e].recv = s
     \/ BuiltOver(origin[e].recv, s)

\* None of the calls that built e from s was WithCode with a non-empty code.
RECURSIVE NoCodeSet(_, _)
NoCodeSet(e, s) ==
  \/ e = s
  \/ /\ ~(origin[e].op = "WithCode" /\ origin[e].code # NoCode)
     /\ NoCodeSet(origin[e].recv, s)

\* C17: a sentinel under any number of Wrap / Wrapf / With / WithDetails
\* layers still satisfies errors.Is(wrapped, sentinel); CodeOf(wrapped) is
\* the sentinel's code as long as no layer sets a non-empty code; and the
\* sentinel keeps the message and code it was created with.
C17_SentinelUnderWrappers ==
  \A s \in SentinelPtrs :
    /\ heap[s].msg = "not found"
    /\ heap[s].code = origin[s].code
    /\ published[s].error = "not found"
    /\ \A e \in Ptrs :
         BuiltOver(e, s) =>
           /\ ErrorsIs(heap, e, s)
           /\ NoCodeSet(e, s) => CodeOf(heap, e) = origin[s].code

\* A not_found sentinel three layers deep, Wrapf and With among them, none
\* setting a code.
C17_Witness ==
  \E s \in SentinelPtrs, e \in Ptrs :
    /\ origin[s].code = NotFound
    /\ BuiltOver(e, s)
    /\ NoCodeSet(e, s)
    /\ e = s + 3
    /\ origin[e].op = "With"
    /\ origin[origin[e].recv].op = "Wrapf"
    /\ CodeOf(heap, e) = NotFound

(***************************************************************************)
(* The gRPC pipeline applied twice (SpecWire).                             *)
(***************************************************************************)
\* C18: for every error e, gerr.ToStatus(gerr.FromStatus(gerr.ToStatus(e)))
\* has the status code, the message and the sequence of details of
\* gerr.ToStatus(e).
C18_PipelineIdempotent ==
  (resent.proto = "grpc" /\ wire.src # 0) =>
    /\ resent.msg # Panic
    /\ resent.msg.code = wire.msg.code
    /\ resent.msg.message = wire.msg.message
    /\ resent.msg.details = wire.msg.details
    /\ StatusDetails(resent.msg) = StatusDetails(wire.msg)

\* A chain carrying details of every kind went through the pipeline twice
\* and the second status has the four canonical details and the native one.
C18_Witness ==
  /\ resent.proto = "grpc"
  /\ wire.src # 0
  /\ Len(DetailsOf(heap, arrays, wire.src)) = 6
  /\ heap[wire.src].kind = "wrapError"
  /\ Len(resent.msg.details) = 5
  /\ resent.msg.code # codesUnknown

(***************************************************************************)
(* Localization (SpecLocale).                                              *)
(***************************************************************************)
LocaleAnswered == "sent" \in DOMAIN wire

\* The locale function in force: the last non-nil one given, else the
\* default extraction.
FuncInForce ==
  LET fs == SelectSeq(wire.opts, LAMBDA o : o.opt = "localeFunc" /\ o.f # "nil")
  IN IF Len(fs) = 0 THEN "default" ELSE fs[Len(fs)].f

\* The tag of the highest weight, the leftmost among equals; empty for an
\* empty or a rejected header.
PreferredTag(al) ==
  IF ~al.ok \/ al.tags = << >> THEN ""
  ELSE LET i == CHOOSE i \in 1..Len(al.tags) :
                  /\ \A j \in 1..Len(al.tags) : al.tags[j].q <= al.tags[i].q
                  /\ \A j \in 1..(i - 1) : al.tags[j].q < al.tags[i].q
       IN al.tags[i].tag

FuncResult ==
  IF FuncInForce = "default" THEN PreferredTag(wire.header.AcceptLanguage)
  ELSE wire.header.XLocale

\* The static default locale: the last one configured, none for the HTTP
\* middleware, which has no such option.
StaticDefault ==
  LET ds == SelectSeq(wire.opts, LAMBDA o : o.opt = "defaultLocale")
  IN IF Len(ds) = 0 \/ ds[Len(ds)].tag = Und THEN "" ELSE ds[Len(ds)].tag

ResolvedLocale == IF FuncResult # "" THEN FuncResult ELSE StaticDefault

\* The Localizable errors of the chain under err, outermost first.
LocalizableIn(err) ==
  SelectSeq(ChainOf(heap, err), LAMBDA n : heap[n].kind = "localizableError")

\* The message the three conditions produce, empty when one of them fails.
ProducedMessage ==
  IF LocalizableIn(wire.src) = << >> \/ ResolvedLocale = "" THEN ""
  ELSE Localize(heap[LocalizableIn(wire.src)[1]], ResolvedLocale)

\* The wire's details, decoded (none for a problem detail, whose errors
\* are JSON objects).
DecodedDetails ==
  CASE wire.proto = "grpc"    -> StatusDetails(wire.msg)
    [] wire.proto = "connect" -> ConnectValues(wire.msg)
    [] wire.proto = "http"    -> << >>

\* The localized messages the response carries, as {locale, message}.
EmittedMessages ==
  IF wire.proto = "http"
  THEN IF wire.msg.LocalizedMessage = NilMessage THEN << >>
       ELSE << wire.msg.LocalizedMessage >>
  ELSE LET lms == SelectSeq(DecodedDetails,
                            LAMBDA d : d.type = "errdetails.LocalizedMessage")
       IN [i \in 1..Len(lms) |-> [Locale |-> lms[i].Locale, Message |-> lms[i].Message]]

\* The adapter converted wire.sent by the plain forward conversion.
PlainConversion ==
  wire.msg = CASE wire.proto = "grpc"    -> StatusOf(heap, arrays, wire.sent)
               [] wire.proto = "connect" -> ConnectErrorOf(heap, arrays, wire.sent)
               [] wire.proto = "http"    -> ProblemOf(heap, arrays, wire.sent, << >>)

\* The error converted has the details of the handler's error and one
\* more, the localized message, after the own details of the outermost
\* *errx.Error of the chain.
AppendedBeforeConversion ==
  LET ds == DetailsOf(heap, arrays, wire.src)
      ex == AsError(heap, wire.src)
      k  == IF ex = 0 THEN 0 ELSE heap[ex].details.len
  IN DetailsOf(heap, arrays, wire.sent) =
       SubSeq(ds, 1, k)
         \o << LocalizedMessage(ResolvedLocale, ProducedMessage) >>
         \o SubSeq(ds, k + 1, Len(ds))

\* The localized message is one of the details on the wire.
OnTheWire ==
  \E i \in 1..Len(DecodedDetails) :
    DecodedDetails[i] = LocalizedMessage(ResolvedLocale, ProducedMessage)

AllPack ==
  LET ds == DetailsOf(heap, arrays, wire.sent)
      pms == NonNil([i \in 1..Len(ds) |-> gerrToProtoDetail(ds[i])])
  IN \A i \in 1..Len(pms) : AnyNew(pms[i]).ok

C20_LocalizationDecision ==
  LocaleAnswered =>
    EmittedMessages =
      IF ProducedMessage # ""
      THEN << [Locale |-> ResolvedLocale, Message |-> ProducedMessage] >>
      ELSE << >>

(***************************************************************************)
(* SpecParse: ParseAcceptLanguage over the Accept-Language values of up to *)
(* MaxTags entries.                                                        *)
(***************************************************************************)
MaxTags == 2

TagInputs == { "ja", "en_us", "fr", "not a valid header!!!" }

EntryInputs ==
  { Unweighted(t) : t \in TagInputs }
  \cup { Weighted(t, q) : t \in TagInputs, q \in { 0, 8, 10 } }

RECURSIVE EntryLists(_)
EntryLists(n) ==
  IF n = 0 THEN { << >> }
  ELSE LET shorter == EntryLists(n - 1) IN
       shorter \cup { Append(l, e) : l \in { x \in shorter : Len(x) = n - 1 },
                                      e \in EntryInputs }

ParseInputs == { AcceptLanguage(l) : l \in EntryLists(MaxTags) } \cup { Unparsable }

InitParse ==
  /\ TablesInit
  /\ wire = NoWire
  /\ recovered = [from |-> "none", node |-> 0]
  /\ resent = NoWire
  /\ recorder = NewRecorder
  /\ trace = << >>
  /\ heap = << >>
  /\ arrays = << >>
  /\ stacks = << >>
  /\ origin = << >>
  /\ published = << >>
  /\ lastParse \in { [s |-> s, via |-> "none", got |-> ""] : s \in ParseInputs }

\* got := errx.ParseAcceptLanguage(s)
CallParseAcceptLanguage ==
  /\ lastParse.via = "none"
  /\ lastParse' = [lastParse EXCEPT !.via = "errx", !.got = ParseAcceptLanguage(lastParse.s)]
  /\ UNCHANGED << tableVars, chainVars, wire, recovered, resent, recorder, trace >>

\* got := parseAcceptLanguage(s), the copy the HTTP middleware keeps
CallHerrParseAcceptLanguage ==
  /\ lastParse.via = "none"
  /\ lastParse' = [lastParse EXCEPT !.via = "herr", !.got = ParseAcceptLanguage(lastParse.s)]
  /\ UNCHANGED << tableVars, chainVars, wire, recovered, resent, recorder, trace >>

NextParse ==
  \/ CallParseAcceptLanguage
  \/ CallHerrParseAcceptLanguage

SpecParse == InitParse /\ [][NextParse]_vars

Parsed == lastParse.via # "none"

\* The header value parses: its syntax is accepted and every tag is
\* well-formed.
Parses(s) == s.ok /\ \A i \in 1..Len(s.tags) : WellFormedTag(s.tags[i].tag)

\* The quality value of an entry, 1.0 when none is written.
QualityOf(e) == IF e.explicit THEN e.q ELSE 10

\* The leftmost entry of the highest quality value among the entries at the
\* positions idx of the value (idx is not empty).
LeftmostHighest(s, idx) ==
  CHOOSE i \in idx :
    /\ \A j \in idx : QualityOf(s.tags[j]) <= QualityOf(s.tags[i])
    /\ \A j \in idx : j < i => QualityOf(s.tags[j]) < QualityOf(s.tags[i])

\* C21 as stated: the result is the tag of the strictly highest quality
\* value, the leftmost among equals, an unweighted tag counting as q=1; it
\* is the empty string for an empty value and for one that fails to parse;
\* the call never raises.
C21_HighestQuality ==
  Parsed =>
    LET s == lastParse.s IN
    /\ lastParse.got \in STRING
    /\ (~Parses(s) \/ Len(s.tags) = 0) => lastParse.got = ""
    /\ (Parses(s) /\ Len(s.tags) > 0) =>
         lastParse.got = CanonicalTag[s.tags[LeftmostHighest(s, 1..Len(s.tags))].tag]

\* C21 (amended): the result is the tag of the strictly highest quality
\* value among the tags of non-zero weight, the leftmost among equals, an
\* unweighted tag counting as q=1; it is the empty string for an empty
\* value, for one that fails to parse and for one whose tags all have
\* weight zero; the call never raises.
C21_HighestPositiveQuality ==
  Parsed =>
    LET s == lastParse.s
        pos == { i \in 1..Len(s.tags) : QualityOf(s.tags[i]) > 0 }
    IN /\ lastParse.got \in STRING
       /\ (~Parses(s) \/ pos = { }) => lastParse.got = ""
       /\ (Parses(s) /\ pos # { }) =>
            lastParse.got = CanonicalTag[s.tags[LeftmostHighest(s, pos)].tag]

\* A value of two tags where the second outweighs the first, or ties with
\* it, has been parsed to a tag.
C21_Witness ==
  /\ Parsed
  /\ Len(lastParse.s.tags) >= 2
  /\ QualityOf(lastParse.s.tags[2]) >= QualityOf(lastParse.s.tags[1])
  /\ QualityOf(lastParse.s.tags[1]) > 0
  /\ lastParse.s.tags[1].tag # lastParse.s.tags[2].tag
  /\ lastParse.got # ""

(***************************************************************************)
(* SpecServe: one request through an adapter's entry point.  The wrapped   *)
(* handler returns nil or the head of a chain.                             *)
(***************************************************************************)
\* The entry point hands back what the handler returned: resp and no error.
\* An HTTP handler has written its own response meanwhile.
Passed(proto, entry, resp, wrote, header, opts) ==
  /\ wire = NoWire
  /\ wire' = [proto |-> proto, entry |-> entry, src |-> 0, resp |-> resp,
              err |-> "nil", header |-> header, opts |-> opts]
  /\ trace' = << [call |-> "handler", resp |-> resp, err |-> 0, wrote |-> wrote] >>
  /\ recorder' = Replay(recorder, wrote)
  /\ UNCHANGED << tableVars, chainVars, recovered, resent, lastParse >>

\* gerr.UnaryServerInterceptor(opts...)(ctx, req, info, handler)
UnaryServerInterceptor(header, resp, err, opts, spare) ==
  IF err # 0 THEN toStatusError(header, err, opts, spare)
  ELSE Passed("grpc", "UnaryServerInterceptor", resp, << >>, header, opts)

\* gerr.StreamServerInterceptor(opts...)(srv, ss, info, handler)
StreamServerInterceptor(header, err, opts, spare) ==
  IF err # 0 THEN toStatusError(header, err, opts, spare)
  ELSE Passed("grpc", "StreamServerInterceptor", "nil", << >>, header, opts)

\* cerr.NewInterceptor(opts...).WrapUnary(next)(ctx, req)
WrapUnary(header, resp, err, opts, spare) ==
  IF err # 0 THEN toConnectError(header, err, opts, spare)
  ELSE Passed("connect", "WrapUnary", resp, << >>, header, opts)

\* cerr.NewInterceptor(opts...).WrapStreamingHandler(next)(ctx, conn)
WrapStreamingHandler(header, err, opts, spare) ==
  IF err # 0 THEN toConnectError(header, err, opts, spare)
  ELSE Passed("connect", "WrapStreamingHandler", "nil", << >>, header, opts)

\* cerr.NewInterceptor(opts...).WrapStreamingClient(next)
WrapStreamingClient(next, opts) ==
  /\ wire = NoWire
  /\ wire' = [proto |-> "connect", entry |-> "WrapStreamingClient", src |-> 0,
              next |-> next, got |-> next, opts |-> opts]
  /\ UNCHANGED << tableVars, chainVars, recovered, resent, sideVars >>

\* herr.Handler(h, opts...).ServeHTTP(w, r)
Handler(header, wrote, err, opts) ==
  IF err # 0 THEN writeErrorWithLocale(header, err, opts)
  ELSE Passed("http", "Handler", "nil", wrote, header, opts)

ServeRootLayers ==
  { LocalizableLayer([en |-> "Name is required", ja |-> "Namae wa hissu desu"]),
    Layer("errorString", "root", NoCode, << >>),
    Layer("Error", "boom", NotFound, << FieldViolation("email", "invalid") >>),
    Layer("Error", "boom", "payment_declined", << >>),
    Layer("Error", "boom", NoCode, << >>) }

ServeUpperLayers ==
  { Layer("Error", "", InvalidArgument, << >>),
    Layer("Error", "ctx", NoCode, << ResourceInfo("order", "orders/7", "", "locked") >>),
    Layer("wrapError", "outer", NoCode, << >>),
    Layer("coderError", "coded", Aborted, << >>),
    LocalizableLayer([ja |-> "Namae wa hissu desu"]) }

InitServe == InitChain(ServeRootLayers, ServeUpperLayers)

ServeHeaderInputs ==
  { Header(AcceptLanguage(<< Weighted("en", 8), Unweighted("ja") >>), ""),
    Header(AcceptLanguage(<< >>), "ja-JP") }

ServeOpts == { << >>, << WithDefaultLocale("en") >> }

ServeMiddlewareOpts == { << >>, << WithLocaleFunc("X-Locale") >> }

NextServe ==
  \/ \E hd \in ServeHeaderInputs, resp \in HandlerResponses, err \in ErrInputs,
        opts \in ServeOpts, spare \in BOOLEAN :
       UnaryServerInterceptor(hd, resp, err, opts, spare)
  \/ \E hd \in ServeHeaderInputs, err \in ErrInputs, opts \in ServeOpts,
        spare \in BOOLEAN :
       StreamServerInterceptor(hd, err, opts, spare)
  \/ \E hd \in ServeHeaderInputs, resp \in HandlerResponses, err \in ErrInputs,
        opts \in ServeOpts, spare \in BOOLEAN :
       WrapUnary(hd, resp, err, opts, spare)
  \/ \E hd \in ServeHeaderInputs, err \in ErrInputs, opts \in ServeOpts,
        spare \in BOOLEAN :
       WrapStreamingHandler(hd, err, opts, spare)
  \/ \E next \in { "next" }, opts \in ServeOpts : WrapStreamingClient(next, opts)
  \/ \E hd \in ServeHeaderInputs, wrote \in HandlerWrites, err \in ErrInputs,
        opts \in ServeMiddlewareOpts :
       Handler(hd, wrote, err, opts)

SpecServe == InitServe /\ [][NextServe]_vars

\* An entry point that invokes the handler has answered.
Served == wire # NoWire /\ "resp" \in DOMAIN wire

\* The handler's error was not nil and the conversion did not panic.
Failed == Served /\ wire.src # 0 /\ wire.msg # Panic

\* The protocol code of the failure an adapter returned or wrote, and its
\* message.
WireCode ==
  IF wire.proto = "http" THEN wire.msg.Status ELSE wire.msg.code

WireMessage ==
  CASE wire.proto = "grpc" -> wire.msg.message
    [] wire.proto = "connect" -> ConnectMessage(heap, wire.msg)
    [] OTHER -> wire.msg.Detail

\* The protocol code the taxonomy maps c to.
TaxonomyCode(proto, c) ==
  CASE proto = "grpc" -> ToGRPCCode(c)
    [] proto = "connect" -> ToConnectCode(c)
    [] OTHER -> ToHTTPStatus(c)

CallsOf(name) == { i \in 1..Len(trace) : trace[i].call = name }

\* C22: the wrapped handler is invoked exactly once and before any
\* conversion; on a nil error its response is passed through unchanged, no
\* error is returned and neither the locale function nor Localize is
\* called; on a non-nil error the response is nil and the failure is the
\* forward conversion of that error, its protocol code the taxonomy's
\* mapping of CodeOf(err); WrapStreamingClient returns next unchanged.
C22_InterceptorProtocol ==
  /\ Served =>
       /\ CallsOf("handler") = { 1 }
       /\ wire.src = 0 =>
            /\ wire.resp = trace[1].resp
            /\ wire.err = "nil"
            /\ CallsOf("localeFunc") \cup CallsOf("Localize") \cup CallsOf("convert") = { }
       /\ wire.src # 0 =>
            /\ wire.resp = "nil"
            /\ Cardinality(CallsOf("convert")) = 1
  /\ Failed =>
       /\ WireCode = TaxonomyCode(wire.proto, CodeOf(heap, wire.src))
       /\ WireMessage = ErrorString(heap, wire.src)
  /\ (wire # NoWire /\ "next" \in DOMAIN wire) => wire.got = wire.next

(***************************************************************************)
(* SpecNoError: the constructors and the conversions called with a nil     *)
(* error (and with the head of a chain, for contrast).                     *)
(***************************************************************************)
\* A call that returned nil and touched nothing.
ReturnedNil(name) ==
  /\ \A i \in 1..Len(trace) : trace[i].call # name
  /\ trace' = Append(trace, [call |-> name, err |-> 0, got |-> 0])
  /\ UNCHANGED << tableVars, chainVars, wire, recovered, resent, lastParse, recorder >>

\* errx.Wrap(err, args...)
WrapCall(err, args, spare) ==
  IF err = 0 THEN ReturnedNil("Wrap") ELSE Wrap(err, args, spare)

\* errx.Wrapf(err, format, fmtArgs...)
WrapfCall(err, msg) ==
  IF err = 0 THEN ReturnedNil("Wrapf") ELSE Wrapf(err, msg)

\* A plausible slip: the nil check is missing and the problem of no error
\* is written.
WriteErrorUnchecked(wrote, err, opts) ==
  /\ wire = NoWire
  /\ LET p == IF err = 0
              THEN [Type |-> "about:blank", Title |-> "OK", Status |-> StatusOK,
                    Detail |-> "", Instance |-> "", Code |-> "", Errors |-> << >>,
                    LocalizedMessage |-> NilMessage]
              ELSE ProblemOf(heap, arrays, err, opts)
     IN /\ wire' = [proto |-> "http", src |-> err, msg |-> p, popts |-> opts]
        /\ recorder' = IF p = Panic THEN Replay(recorder, wrote)
                       ELSE writeProblemDetail(Replay(recorder, wrote), p)
        /\ trace' = Append(trace, [call |-> "WriteError", err |-> err, wrote |-> wrote])
  /\ UNCHANGED << tableVars, chainVars, recovered, resent, lastParse >>

\* herr.WriteError(w, err, opts...), w having seen the calls wrote before.
WriteError(wrote, err, opts) ==
  /\ wire = NoWire
  /\ IF err = 0
     THEN /\ \A i \in 1..Len(trace) : trace[i].call # "WriteError"
          /\ trace' = Append(trace, [call |-> "WriteError", err |-> 0, wrote |-> wrote])
          /\ recorder' = Replay(recorder, wrote)
          /\ wire' = wire
     ELSE LET p == ProblemOf(heap, arrays, err, opts) IN
          /\ wire' = [proto |-> "http", src |-> err, msg |-> p, popts |-> opts]
          /\ recorder' = IF p = Panic THEN Replay(recorder, wrote)
                         ELSE writeProblemDetail(Replay(recorder, wrote), p)
          /\ trace' = Append(trace, [call |-> "WriteError", err |-> err, wrote |-> wrote])
  /\ UNCHANGED << tableVars, chainVars, recovered, resent, lastParse >>

NextNoError ==
  \/ \E err \in ErrInputs : WrapCall(err, << >>, FALSE)
  \/ \E err \in ErrInputs : WrapfCall(err, "context")
  \/ \E err \in ErrInputs : ToStatus(err)
  \/ \E spare \in BOOLEAN : FromStatus(spare)
  \/ \E err \in ErrInputs : ToConnectError(err)
  \/ \E spare \in BOOLEAN : FromConnectError(spare)
  \/ \E err \in ErrInputs, opts \in OptInputs : ToProblemDetail(err, opts)
  \/ FromProblemDetail
  \/ \E err \in ErrInputs, opts \in OptInputs : WriteError(<< >>, err, opts)

NoErrorRootLayers ==
  { Layer("errorString", "root", NoCode, << >>),
    Layer("Error", "boom", NotFound, << FieldViolation("email", "invalid") >>) }

NoErrorUpperLayers == { Layer("wrapError", "outer", NoCode, << >>) }

InitNoError == InitChain(NoErrorRootLayers, NoErrorUpperLayers)

SpecNoError == InitNoError /\ [][NextNoError]_vars

\* The step is a call made with no error: a constructor or WriteError given
\* nil, a forward conversion of nil, a reverse conversion of what it gave.
NilCallStep ==
  \/ trace' # trace /\ trace'[Len(trace')].err = 0
  \/ wire' # wire /\ wire'.src = 0
  \/ recovered' # recovered /\ wire.src = 0

\* C23: Wrap and Wrapf of nil return nil; ToStatus(nil) is an OK status,
\* ToConnectError(nil) and ToProblemDetail(nil) are nil and WriteError(w,
\* nil) writes no header, no status and no body; FromStatus of an OK
\* status, FromConnectError(nil) and FromProblemDetail(nil) return nil;
\* none of the calls changes anything else.
C23_NoErrorPropagation ==
  [][NilCallStep =>
       /\ UNCHANGED << tableVars, chainVars, lastParse, recorder >>
       /\ trace' # trace => trace'[Len(trace')].call = "WriteError"
                            \/ trace'[Len(trace')].got = 0
       /\ wire' # wire =>
            CASE wire'.proto = "grpc" ->
                   wire'.msg.code = codesOK /\ wire'.msg.details = << >>
              [] OTHER -> wire'.msg = NilMessage
       /\ recovered' # recovered => recovered'.node = 0]_vars

\* Wrap(nil) has returned nil, WriteError(w, nil) has left w as it was and a
\* reverse conversion of the conversion of nil has returned nil.
C23_Witness ==
  /\ \E i \in 1..Len(trace) : trace[i].call = "Wrap" /\ trace[i].got = 0
  /\ \E i \in 1..Len(trace) : trace[i].call = "WriteError" /\ trace[i].err = 0
  /\ recorder = NewRecorder
  /\ wire # NoWire /\ wire.src = 0
  /\ recovered.from = "http" /\ recovered.node = 0

(***************************************************************************)
(* SpecPayload: errors built with fields and stacks, then converted.       *)
(***************************************************************************)
PayloadArgs == { << >>, << StrArg("user_id"), StrArg("42") >> }

NextPayload ==
  \/ \E args \in PayloadArgs : wire = NoWire /\ New("boom", args, FALSE)
  \/ \E args \in PayloadArgs : wire = NoWire /\ heap # << >> /\ Wrap(Len(heap), args, FALSE)
  \/ \E spare \in BOOLEAN :
       /\ wire = NoWire /\ heap # << >>
       /\ With(Len(heap), << AttrArg("key2", "val2") >>, spare)
  \/ wire = NoWire /\ heap # << >> /\ WithStack(Len(heap), << "main.handler" >>)
  \/ wire = NoWire /\ heap # << >> /\ WithCode(Len(heap), NotFound)
  \/ /\ wire = NoWire /\ heap # << >>
     /\ WithDetails(Len(heap), << ResourceInfo("user", "users/1", "alice", "missing") >>, FALSE)
  \/ \E err \in Ptrs : ToStatus(err)
  \/ \E err \in Ptrs : ToConnectError(err)
  \/ \E err \in Ptrs : ToProblemDetail(err, << >>)
  \/ \E err \in Ptrs : WriteError(<< >>, err, << >>)

SpecPayload == Init /\ [][NextPayload]_vars

\* The same errors with no field and no stack: every node's field slice
\* nil, its stack nil, the arrays that backed fields blank.
PlainHeap ==
  [i \in DOMAIN heap |-> [heap[i] EXCEPT !.fields = NilSlice, !.stack = 0]]

PlainArrays ==
  [a \in DOMAIN arrays |->
     IF \E i \in DOMAIN heap : heap[i].fields.arr = a
     THEN [k \in DOMAIN arrays[a] |-> ZeroSlot]
     ELSE arrays[a]]

\* The head of the converted chain, or a node under it, has fields or a
\* stack.
Decorated(err) ==
  \E i \in 1..Len(ChainOf(heap, err)) :
    LET n == heap[ChainOf(heap, err)[i]] IN n.fields # NilSlice \/ n.stack # 0

\* C24: the outputs of ToStatus, ToConnectError, ToProblemDetail and
\* WriteError are those of the same error without its stacks and its
\* fields: code or status, message, details and JSON body.
C24_PayloadIgnoresFieldsAndStacks ==
  (wire # NoWire /\ wire.src # 0) =>
    CASE wire.proto = "grpc" ->
           wire.msg = StatusOf(PlainHeap, PlainArrays, wire.src)
      [] wire.proto = "connect" ->
           /\ wire.msg = ConnectErrorOf(PlainHeap, PlainArrays, wire.src)
           /\ ConnectMessage(heap, wire.msg) = ConnectMessage(PlainHeap, wire.msg)
      [] OTHER ->
           /\ wire.msg = ProblemOf(PlainHeap, PlainArrays, wire.src, << >>)
           /\ trace # << >> =>
                recorder = writeProblemDetail(
                             NewRecorder,
                             ProblemOf(PlainHeap, PlainArrays, wire.src, << >>))

\* An error with fields and a stack above a node with details has been
\* written by WriteError.
C24_Witness ==
  /\ wire # NoWire /\ wire.proto = "http" /\ trace # << >>
  /\ wire.src # 0
  /\ heap[wire.src].stack # 0
  /\ heap[wire.src].fields # NilSlice
  /\ Len(DetailsOf(heap, arrays, wire.src)) > 0
  /\ recorder.code = StatusNotFound

(***************************************************************************)
(* SpecWrite: herr.WriteError and herr.Handler write the problem of the    *)
(* head of a chain to a ResponseWriter the caller may have used already.   *)
(***************************************************************************)
WriteRootLayers ==
  { Layer("Error", "boom", c, ds) :
      c \in { NoCode, NotFound, "payment_declined" },
      ds \in { << >>, << FieldViolation("email", "invalid") >> } }
  \cup { LocalizableLayer([en |-> "Name is required", ja |-> "Namae wa hissu desu"]) }

WriteUpperLayers ==
  { Layer("Error", "", InvalidArgument, << >>), Layer("wrapError", "outer", NoCode, << >>) }

InitWrite == InitChain(WriteRootLayers, WriteUpperLayers)

WriteOpts ==
  { << >>,
    << WithInstance("/users/alice") >>,
    << WithErrors(<< [type |-> "Custom", reason |-> "quota"] >>) >>,
    << WithErrors(<< [type |-> "Custom", reason |-> "quota"], Unencodable >>) >> }

NextWrite ==
  \/ \E wrote \in HandlerWrites, opts \in WriteOpts : WriteError(wrote, Len(heap), opts)
  \/ \E hd \in ServeHeaderInputs, wrote \in HandlerWrites, err \in ErrInputs,
        opts \in ServeMiddlewareOpts :
       Handler(hd, wrote, err, opts)

SpecWrite == InitWrite /\ [][NextWrite]_vars

\* A problem has been handed to writeProblemDetail.
WroteProblem ==
  /\ wire # NoWire /\ wire.proto = "http" /\ wire.src # 0 /\ wire.msg # Panic
  /\ trace # << >>

\* The calls writeProblemDetail made on w, after those made before it.
OwnCalls ==
  SubSeq(recorder.calls, Len(trace[1].wrote) + 1, Len(recorder.calls))

\* The problem does not encode.
EncodingFails == \E i \in 1..Len(wire.msg.Errors) : wire.msg.Errors[i] = Unencodable

\* C25: when encoding the problem fails, writeProblemDetail writes one
\* response with Content-Type application/problem+json, status 500 and the
\* fixed minimal body, nothing of the problem, and hands no error or panic
\* to its caller; when encoding succeeds it writes the problem's status
\* with the encoded body.
C25_SerializationFallback ==
  WroteProblem =>
    IF EncodingFails
    THEN /\ OwnCalls = << [call |-> "Set", arg |-> "application/problem+json"],
                          [call |-> "WriteHeader", arg |-> StatusInternalServerError],
                          [call |-> "Write", arg |-> << FallbackBody, Newline >>] >>
         /\ trace[1].wrote = << >> =>
              /\ recorder.code = StatusInternalServerError
              /\ recorder.sent = "application/problem+json"
              /\ recorder.body = << FallbackBody, Newline >>
    ELSE /\ OwnCalls = << [call |-> "Set", arg |-> "application/problem+json"],
                          [call |-> "WriteHeader", arg |-> wire.msg.Status],
                          [call |-> "Write", arg |-> JSONMarshal(wire.msg).b],
                          [call |-> "Write", arg |-> << Newline >>] >>
         /\ trace[1].wrote = << >> =>
              /\ recorder.code = wire.msg.Status
              /\ recorder.sent = "application/problem+json"
              /\ recorder.body = JSONMarshal(wire.msg).b \o << Newline >>

\* A problem that does not encode has been answered with the fallback on a
\* ResponseWriter nothing had been written to.
C25_Witness ==
  /\ WroteProblem
  /\ EncodingFails
  /\ trace[1].wrote = << >>
  /\ wire.msg.Status = StatusNotFound
  /\ recorder.code = StatusInternalServerError

\* The handler has sent the status line or some of the body already.
AlreadySent ==
  \E i \in 1..Len(trace[1].wrote) : trace[1].wrote[i].call \in { "WriteHeader", "Write" }

\* C26 as stated: whenever the handler returns an error, the status line
\* delivered is ToHTTPStatus(CodeOf(err)), equal to the body's status
\* member, with Content-Type application/problem+json, whatever the handler
\* wrote to the ResponseWriter before.
C26_StatusLineAlways ==
  WroteProblem =>
    /\ recorder.code = ToHTTPStatus(CodeOf(heap, wire.src))
    /\ recorder.sent = "application/problem+json"
    /\ \E i \in 1..Len(recorder.body) :
         /\ "status" \in DOMAIN recorder.body[i]
         /\ recorder.body[i].status = recorder.code

\* C26 (amended): the same, for every sequence of header settings the
\* handler made before, provided it has sent neither the status line nor
\* any body and the problem encodes.
C26_StatusLineWhenNothingSent ==
  (WroteProblem /\ ~AlreadySent /\ ~EncodingFails) =>
    /\ recorder.code = ToHTTPStatus(CodeOf(heap, wire.src))
    /\ recorder.sent = "application/problem+json"
    /\ recorder.body = JSONMarshal(wire.msg).b \o << Newline >>
    /\ recorder.body[1].status = recorder.code

\* herr.Handler has answered for a handler that set its own Content-Type
\* and then returned a not-found error.
C26_Witness ==
  /\ WroteProblem /\ ~AlreadySent /\ ~EncodingFails
  /\ trace[1].call = "handler"
  /\ trace[1].wrote # << >>
  /\ recorder.code = StatusNotFound

(***************************************************************************)
(* Consistency of the HTTP tables (SpecTables).                            *)
(***************************************************************************)
\* The status comes back from its reverse entry's code, and the code from
\* its status.
StatusRoundTrips(s) == ToHTTPStatus(ToErrxCode(s)) = s
CodeRoundTrips(c) == ToErrxCode(ToHTTPStatus(c)) = c

\* The step is the call RegisterCode(c, s).
Registers(c, s) ==
  /\ regCalls' # regCalls
  /\ errxToHTTP' = MapSet(errxToHTTP, c, s)
  /\ httpToErrx' = MapSet(httpToErrx, s, c)

\* C27 as stated: after any sequence of RegisterCode calls every status
\* with a reverse entry comes back from its code, and every well-known code
\* that round-tripped before a call still does unless that call registered
\* it.
C27_TablesStayConsistent ==
  [][ \A c \in RegCodes, s \in RegStatuses :
        Registers(c, s) =>
          /\ \A s2 \in DOMAIN httpToErrx' : StatusRoundTrips(s2)'
          /\ \A k \in WellKnownCodes \ { c } : CodeRoundTrips(k) => CodeRoundTrips(k)' ]_vars

\* C27 (amended): after RegisterCode(c, s) the status s comes back from its
\* code; every other status with a reverse entry that did so before still
\* does unless its reverse entry names c; every well-known code that
\* round-tripped before still does unless it is c or its status is s.
C27_TablesConsistentElsewhere ==
  [][ \A c \in RegCodes, s \in RegStatuses :
        Registers(c, s) =>
          /\ StatusRoundTrips(s)'
          /\ \A s2 \in DOMAIN httpToErrx \ { s } :
               (StatusRoundTrips(s2) /\ ToErrxCode(s2) # c) => StatusRoundTrips(s2)'
          /\ \A k \in WellKnownCodes \ { c } :
               (CodeRoundTrips(k) /\ ToHTTPStatus(k) # s) => CodeRoundTrips(k)' ]_vars

\* A custom code was registered twice with different statuses: the first
\* status still names it, and it no longer names that status.
C27_Witness ==
  /\ regCalls = 2
  /\ ToErrxCode(StatusPaymentRequired) = "payment_required"
  /\ ToHTTPStatus("payment_required") = StatusBadRequest
  /\ ToErrxCode(StatusBadRequest) = "payment_required"
  /\ CodeRoundTrips(NotFound)

(***************************************************************************)
(* SpecFailure: a chain of any code through the conversions and the entry  *)
(* points.                                                                 *)
(***************************************************************************)
FailureRootLayers ==
  { Layer("Error", "boom", c, << >>) : c \in AllCodes }
  \cup { Layer("coderError", "coded", c, << >>) : c \in ForeignCodes }
  \cup { Layer("errorString", "root", NoCode, << >>),
         LocalizableLayer([en |-> "Name is required", ja |-> "Namae wa hissu desu"]) }

FailureUpperLayers ==
  { Layer("Error", "", NoCode, << >>),
    Layer("Error", "ctx", "custom", << >>),
    Layer("wrapError", "outer", NoCode, << >>),
    Layer("coderError", "coded", NoCode, << >>) }

InitFailure == InitChain(FailureRootLayers, FailureUpperLayers)

FailureHeaderInputs ==
  { Header(AcceptLanguage(<< Unweighted("ja") >>), "") }

NextFailure ==
  \/ \E err \in ErrInputs : ToStatus(err)
  \/ \E err \in ErrInputs : ToConnectError(err)
  \/ \E err \in ErrInputs : ToProblemDetail(err, << >>)
  \/ \E hd \in FailureHeaderInputs, resp \in HandlerResponses, err \in ErrInputs :
       UnaryServerInterceptor(hd, resp, err, << >>, FALSE)
  \/ \E hd \in FailureHeaderInputs, err \in ErrInputs :
       StreamServerInterceptor(hd, err, << >>, FALSE)
  \/ \E hd \in FailureHeaderInputs, resp \in HandlerResponses, err \in ErrInputs :
       WrapUnary(hd, resp, err, << >>, FALSE)
  \/ \E hd \in FailureHeaderInputs, err \in ErrInputs :
       WrapStreamingHandler(hd, err, << >>, FALSE)
  \/ \E hd \in FailureHeaderInputs, wrote \in HandlerWrites, err \in ErrInputs :
       Handler(hd, wrote, err, << >>)

SpecFailure == InitFailure /\ [][NextFailure]_vars

\* The statuses of the forward table as loaded.
TableStatuses == { InitErrxToHTTP[c] : c \in DOMAIN InitErrxToHTTP }

\* C28: for every non-nil error, of any code and chain shape,
\* ToStatus(err).Code() is not OK and ToStatus(err).Err() is not nil,
\* ToConnectError(err) is not nil and, no RegisterCode call made,
\* ToProblemDetail(err).Status is one of the table's 4xx/5xx statuses; every
\* entry point returns a non-nil error when the handler did.
C28_FailureStaysFailure ==
  (wire # NoWire /\ wire.src # 0 /\ wire.msg # Panic) =>
    CASE wire.proto = "grpc" ->
           /\ wire.msg # NilMessage
           /\ wire.msg.code # codesOK
           /\ StatusOf(heap, arrays, wire.src).code # codesOK
           /\ StatusErr(StatusOf(heap, arrays, wire.src)) # NilMessage
      [] wire.proto = "connect" ->
           /\ wire.msg # NilMessage
           /\ ConnectErrorOf(heap, arrays, wire.src) # NilMessage
      [] OTHER ->
           regCalls = 0 =>
             /\ wire.msg.Status \in TableStatuses
             /\ wire.msg.Status >= 400 /\ wire.msg.Status <= 599

\* An entry point has answered for a handler error that carries no code
\* under a foreign wrapper.
C28_Witness ==
  /\ wire # NoWire /\ wire.src # 0 /\ "sent" \in DOMAIN wire
  /\ wire.proto = "connect"
  /\ CodeOf(heap, wire.src) = NoCode
  /\ heap[wire.src].kind = "wrapError"
  /\ wire.msg.code = CodeUnknown

(***************************************************************************)
(* Localization and the rest of the response (SpecServe).                  *)
(***************************************************************************)
\* A gRPC or Connect entry point attached a localized message to the
\* handler's error.
Attached == Failed /\ wire.proto # "http" /\ wire.sent # wire.src

\* ToStatus(err) / ToConnectError(err) of the handler's error as it is.
PlainFailure ==
  IF wire.proto = "grpc" THEN StatusOf(heap, arrays, wire.src)
  ELSE ConnectErrorOf(heap, arrays, wire.src)

PlainMessage ==
  IF wire.proto = "grpc" THEN PlainFailure.message
  ELSE ConnectMessage(heap, PlainFailure)

PlainDetails ==
  IF wire.proto = "grpc" THEN StatusDetails(PlainFailure)
  ELSE ConnectValues(PlainFailure)

\* The sequence without its i-th element.
Without(seq, i) == SubSeq(seq, 1, i - 1) \o SubSeq(seq, i + 1, Len(seq))

\* The details on the wire are the plain ones and one localized message.
OneMoreDetail ==
  \E i \in 1..Len(DecodedDetails) :
    /\ DecodedDetails[i].type = "errdetails.LocalizedMessage"
    /\ Without(DecodedDetails, i) = PlainDetails

\* C29: when a gRPC or Connect entry point attaches a localized message,
\* the code, the message and the other details of what it returns are
\* those of ToStatus(err) / ToConnectError(err) of the handler's error,
\* foreign wrappers and code carriers above an *errx.Error included.
C29_LocalizationChangesNothingElse ==
  Attached =>
    /\ wire.msg.code = PlainFailure.code
    /\ WireMessage = PlainMessage
    /\ OneMoreDetail

(***************************************************************************)
(* SpecNative: the handler returns a failure of the protocol's own.        *)
(***************************************************************************)
NativeLayer(kind, text, g, m) ==
  [kind |-> kind, msg |-> text, code |-> NoCode, details |-> << >>,
   native |-> [code |-> g, message |-> m]]

NativeRootLayers ==
  { NativeLayer("statusError", "rpc error: code = NotFound desc = user not found",
                codesNotFound, "user not found"),
    NativeLayer("statusError", "rpc error: code = PermissionDenied desc = forbidden",
                codesPermissionDenied, "forbidden"),
    NativeLayer("connectError", "not_found: user not found",
                CodeNotFound, "user not found"),
    NativeLayer("connectError", "permission_denied: forbidden",
                CodePermissionDenied, "forbidden"),
    Layer("Error", "boom", NotFound, << >>) }

NativeUpperLayers == { Layer("wrapError", "outer", NoCode, << >>) }

InitNative == InitChain(NativeRootLayers, NativeUpperLayers)

NextNative ==
  \/ \E hd \in ServeHeaderInputs, resp \in HandlerResponses, err \in ErrInputs,
        opts \in ServeOpts :
       UnaryServerInterceptor(hd, resp, err, opts, FALSE)
  \/ \E hd \in ServeHeaderInputs, err \in ErrInputs, opts \in ServeOpts :
       StreamServerInterceptor(hd, err, opts, FALSE)
  \/ \E hd \in ServeHeaderInputs, resp \in HandlerResponses, err \in ErrInputs,
        opts \in ServeOpts :
       WrapUnary(hd, resp, err, opts, FALSE)
  \/ \E hd \in ServeHeaderInputs, err \in ErrInputs, opts \in ServeOpts :
       WrapStreamingHandler(hd, err, opts, FALSE)

SpecNative == InitNative /\ [][NextNative]_vars

\* The handler's error is a failure of the answering protocol's own.
NativeServed ==
  /\ Failed
  /\ \/ wire.proto = "grpc" /\ heap[wire.src].kind = "statusError"
     \/ wire.proto = "connect" /\ heap[wire.src].kind = "connectError"

====
